---- MODULE Spec2Model ----
(***************************************************************************)
(* Patilwada-Hotel: the cart, checkout, order and admin handlers of        *)
(* src/app.py over the tables of src/models.py.                            *)
(*                                                                         *)
(* The database is the state: users, foods, carts, orders (each order      *)
(* holding its OrderItems), coupons, services (the service requests) and   *)
(* newsletter, with `now` the value of datetime.utcnow().                  *)
(* `last` is the request served last together                              *)
(* with its response (status code, flashed message, JSON payload).         *)
(* `req` holds the checkout requests that have read the cart (line 368)    *)
(* and have not yet computed the total and committed (lines 383-419).      *)
(* `source` is a history variable: for each order, the ids of the cart     *)
(* rows its OrderItems were copied from.                                   *)
(*                                                                         *)
(* Spec, SpecCart, SpecAdd, SpecCheckout : every handler runs from its     *)
(*            first line to its commit with no other request in between;   *)
(*            each specification serves the requests of one area (order    *)
(*            life cycle and pages, cart totals, add_to_cart, checkout).   *)
(* SpecConc : the threaded server; a checkout is two steps, and any other  *)
(*            request may be served between them.                          *)
(* SpecCoupon, SpecAccounts, SpecUsers, SpecAdmin, SpecKds, SpecNumbers :  *)
(*            one request at a time again: the coupons and the homepage,   *)
(*            registration and the editing of users, the deletion of       *)
(*            users with their rows, every admin operation by every kind   *)
(*            of caller, the kitchen feed, and checkouts that may draw an  *)
(*            order number already in use.                                 *)
(* SpecSales, SpecQuantity, SpecFoods, SpecIsolation, SpecRefused : the    *)
(*            sales figures over days, signed quantities, the deletion of  *)
(*            foods, the carts of two users, refused add_to_cart requests. *)
(* SpecAddConc, SpecAdminConc : the threaded server for add_to_cart (its   *)
(*            lookup and its commit) and for edit_user and delete_user     *)
(*            (the admin test and the write).                              *)
(*                                                                         *)
(* Prices and totals are Float columns in the code; the model keeps them   *)
(* as whole rupees, for which the float arithmetic of the code is exact.   *)
(***************************************************************************)
EXTENDS Integers, Sequences, FiniteSets, TLC

\* ----------------------------------------------------------------- bounds
MaxCartRows == 2      \* cart rows ever inserted (ids 1..MaxCartRows)
MaxOrders == 2        \* orders ever inserted (ids 1..MaxOrders)
MaxQty == 2           \* largest quantity add_to_cart lets a cart row reach
MaxInstrLen == 4      \* longest special_instructions a cart row is let to reach
MaxLifeOrders == 1    \* orders followed through their life cycle in Spec
MaxOrderNumber == 1   \* order numbers generate_order_number draws from in Spec
MaxUsers == 3         \* largest user id followed in SpecUsers
MaxUserRows == 2      \* cart rows, orders and service requests in SpecUsers
MaxAdminChanges == 3  \* changes away from the seeded database in SpecAdmin
MaxKdsOrders == 2     \* orders and clock values followed in SpecKds
MaxDrawn == 2         \* order numbers drawn, and orders inserted, in SpecNumbers
MaxSalesOrders == 2   \* orders followed in SpecSales
MaxFoodRows == 2      \* cart rows and orders followed in SpecFoods
MaxCoupons == 2       \* coupons ever inserted
MaxNow == 3           \* clock ticks followed

\* ------------------------------------------------------ program constants
DeliveryThreshold == 200
DeliveryCharge == 50

UserIds == {1, 2}                 \* user 1 is the seeded admin
Anonymous == 0                    \* a caller with no login session
Callers == UserIds \cup {Anonymous}
FoodIds == {1, 2}
Prices == {100, 250}
OrderNumbers == 1..MaxOrderNumber
Quantities == 0..2                \* quantity values a request may carry
Instructions == {"", "a", "b"}    \* instructions values a request may carry
Reqs == {1, 2}                    \* server threads that can hold a checkout
NoReq == [user |-> Anonymous, cart_items |-> {}]

\* The coupon codes an admin may type, and the days a coupon may be valid
\* until; a day is TicksPerDay ticks of the clock.
Codes == {"save", "SAVE", "new"}
Dates == {0, 1}
TicksPerDay == 2

AdminEmail == "admin@foodapp.com"     \* the seeded admin's email
GuestEmail == "guest@example.com"     \* the email user 2 registered with
NewEmail == "new@example.com"
Emails == {AdminEmail, GuestEmail, NewEmail}

Statuses == {"pending", "confirmed", "preparing", "delivered", "cancelled"}
StatusInputs == Statuses \cup {"refunded", "none"}

VARIABLES users, foods, carts, orders, nextCartId, nextOrderId, source, req, last

\* The coupons and service_requests tables with their id counters, the
\* emails of the newsletter table, and the clock (the value
\* datetime.utcnow() returns).
VARIABLES coupons, nextCouponId, services, nextServiceId, newsletter, now

otherTables == <<coupons, nextCouponId, services, nextServiceId, newsletter, now>>

\* The ids a request may name: those handed out so far and the next one,
\* which names no row.
CartIds == 1..nextCartId
OrderIds == 1..nextOrderId

db == <<users, foods, carts, orders, nextCartId, nextOrderId, source, otherTables>>
vars == <<users, foods, carts, orders, nextCartId, nextOrderId, source, req, last,
          otherTables>>

\* ---------------------------------------------------------------- helpers
is_authenticated(caller) == caller \in DOMAIN users

CartOf(u) == {c \in carts : c.user_id = u}

MinRow(rows) == CHOOSE x \in rows : \A y \in rows : x.id <= y.id

\* The quantity the session sees for a row: an instance already loaded in
\* the session's identity map keeps the attributes it was loaded with.
LoadedQuantity(row, identity_map) ==
    IF \E m \in identity_map : m.id = row.id
    THEN (CHOOSE m \in identity_map : m.id = row.id).quantity
    ELSE row.quantity

RECURSIVE SumCart(_, _)
SumCart(rows, identity_map) ==
    IF rows = {} THEN 0
    ELSE LET item == MinRow(rows)
         IN  foods[item.food_id].price * LoadedQuantity(item, identity_map)
             + SumCart(rows \ {item}, identity_map)

\* calculate_cart_total without the filter on the caller's user_id.
calculate_cart_total_all_users(caller, identity_map) ==
    IF is_authenticated(caller)
    THEN SumCart(carts, identity_map)
    ELSE 0

\* calculate_cart_total, run in a session whose identity map holds the Cart
\* instances `identity_map` (empty when the handler has loaded none).
calculate_cart_total(caller, identity_map) ==
    IF is_authenticated(caller)
    THEN SumCart(CartOf(caller), identity_map)
    ELSE 0

get_cart_count(caller) ==
    IF is_authenticated(caller) THEN Cardinality(CartOf(caller)) ELSE 0

delivery_charge(subtotal) ==
    IF subtotal < DeliveryThreshold THEN DeliveryCharge ELSE 0

\* The request served and its response: the handler, the caller, the id in
\* the URL (0 when there is none), the status code and the message.
Response(op, caller, target, code, flash) ==
    [op |-> op, user |-> caller, target |-> target, code |-> code, flash |-> flash]

\* A request answered without a commit.
Reply(op, caller, target, code, flash) ==
    /\ last' = Response(op, caller, target, code, flash)
    /\ UNCHANGED <<db, req>>

\* login_required: an anonymous caller is redirected to the login page.
LoginRedirect(op, caller, target) ==
    Reply(op, caller, target, 302, "Please login to access this page.")

Forbidden(op, caller, target) == Reply(op, caller, target, 403, "")

NotFound(op, caller, target) == Reply(op, caller, target, 404, "")

\* ------------------------------------------------------------------- Init
\* The database after module startup: the seeded admin (user 1), a guest
\* account (user 2), the seeded menu, no carts and no orders.
Init ==
    /\ users = [u \in UserIds |->
                    [is_admin |-> (u = 1),
                     email |-> IF u = 1 THEN AdminEmail ELSE GuestEmail]]
    /\ foods = [f \in FoodIds |-> [price |-> IF f = 1 THEN 100 ELSE 250,
                                    is_available |-> TRUE]]
    /\ carts = {}
    /\ orders = <<>>
    /\ nextCartId = 1
    /\ nextOrderId = 1
    /\ source = <<>>
    /\ req = [r \in Reqs |-> NoReq]
    /\ last = Response("startup", Anonymous, 0, 200, "")
    /\ coupons = {}
    /\ nextCouponId = 1
    /\ services = {}
    /\ nextServiceId = 1
    /\ newsletter = {}
    /\ now = 0

\* ------------------------------------------------------------ cart routes
\* The answer of add_to_cart to a caller who is not logged in: 401 with a
\* JSON body to an XMLHttpRequest, a redirect to the login page otherwise.
LoginRequired(caller, food_id) ==
    \E xhr \in BOOLEAN :
        IF xhr
        THEN Reply("add_to_cart", caller, food_id, 401, "Please login to add items to cart")
        ELSE Reply("add_to_cart", caller, food_id, 302, "")

\* add_to_cart that overwrites the instructions of the row it finds.
add_to_cart_overwrites(caller, food_id, quantity, instructions) ==
    IF ~is_authenticated(caller)
    THEN LoginRequired(caller, food_id)
    ELSE IF food_id \notin DOMAIN foods
    THEN NotFound("add_to_cart", caller, food_id)
    ELSE IF ~foods[food_id].is_available
    THEN Reply("add_to_cart", caller, food_id, 400, "Food item not available")
    ELSE LET existing == {c \in carts : c.user_id = caller /\ c.food_id = food_id}
         IN  /\ IF existing # {}
                THEN LET cart_item == MinRow(existing)
                         merged == IF instructions # "" THEN instructions
                                   ELSE cart_item.special_instructions
                     IN  /\ carts' = (carts \ {cart_item}) \cup
                                {[cart_item EXCEPT !.quantity = @ + quantity,
                                                   !.special_instructions = merged]}
                         /\ UNCHANGED nextCartId
                ELSE /\ carts' = carts \cup
                            {[id |-> nextCartId, user_id |-> caller, food_id |-> food_id,
                              quantity |-> quantity, special_instructions |-> instructions]}
                     /\ nextCartId' = nextCartId + 1
             /\ UNCHANGED <<users, foods, orders, nextOrderId, source, req, otherTables>>
             /\ last' = Response("add_to_cart", caller, food_id, 200, "added to cart!")
                        @@ [quantity |-> quantity, instructions |-> instructions,
                            cart_count |-> get_cart_count(caller)']

\* add_to_cart without the test of is_available.
add_to_cart_any_food(caller, food_id, quantity, instructions) ==
    IF ~is_authenticated(caller)
    THEN LoginRequired(caller, food_id)
    ELSE IF food_id \notin DOMAIN foods
    THEN NotFound("add_to_cart", caller, food_id)
    ELSE LET existing == {c \in carts : c.user_id = caller /\ c.food_id = food_id}
         IN  /\ IF existing # {}
                THEN LET cart_item == MinRow(existing)
                         merged ==
                             IF instructions # ""
                             THEN IF cart_item.special_instructions # ""
                                  THEN cart_item.special_instructions \o "; " \o instructions
                                  ELSE instructions
                             ELSE cart_item.special_instructions
                     IN  /\ carts' = (carts \ {cart_item}) \cup
                                {[cart_item EXCEPT !.quantity = @ + quantity,
                                                   !.special_instructions = merged]}
                         /\ UNCHANGED nextCartId
                ELSE /\ carts' = carts \cup
                            {[id |-> nextCartId, user_id |-> caller, food_id |-> food_id,
                              quantity |-> quantity, special_instructions |-> instructions]}
                     /\ nextCartId' = nextCartId + 1
             /\ UNCHANGED <<users, foods, orders, nextOrderId, source, req, otherTables>>
             /\ last' = Response("add_to_cart", caller, food_id, 200, "added to cart!")
                        @@ [quantity |-> quantity, instructions |-> instructions,
                            cart_count |-> get_cart_count(caller)']

add_to_cart(caller, food_id, quantity, instructions) ==
    IF ~is_authenticated(caller)
    THEN LoginRequired(caller, food_id)
    ELSE IF food_id \notin DOMAIN foods
    THEN NotFound("add_to_cart", caller, food_id)
    ELSE IF ~foods[food_id].is_available
    THEN Reply("add_to_cart", caller, food_id, 400, "Food item not available")
    ELSE LET existing == {c \in carts : c.user_id = caller /\ c.food_id = food_id}
         IN  /\ IF existing # {}
                THEN LET cart_item == MinRow(existing)
                         merged ==
                             IF instructions # ""
                             THEN IF cart_item.special_instructions # ""
                                  THEN cart_item.special_instructions \o "; " \o instructions
                                  ELSE instructions
                             ELSE cart_item.special_instructions
                     IN  /\ carts' = (carts \ {cart_item}) \cup
                                {[cart_item EXCEPT !.quantity = @ + quantity,
                                                   !.special_instructions = merged]}
                         /\ UNCHANGED nextCartId
                ELSE /\ carts' = carts \cup
                            {[id |-> nextCartId, user_id |-> caller, food_id |-> food_id,
                              quantity |-> quantity, special_instructions |-> instructions]}
                     /\ nextCartId' = nextCartId + 1
             /\ UNCHANGED <<users, foods, orders, nextOrderId, source, req, otherTables>>
             /\ last' = Response("add_to_cart", caller, food_id, 200, "added to cart!")
                        @@ [quantity |-> quantity, instructions |-> instructions,
                            cart_count |-> get_cart_count(caller)']

AddToCart(C, F, Q, I) ==
    \E caller \in C, food_id \in F, quantity \in Q, instructions \in I :
        add_to_cart(caller, food_id, quantity, instructions)

\* add_to_cart on the threaded server, first step: the checks of lines
\* 273-281 and the lookup of line 288.  The request keeps the row it found,
\* with the quantity and instructions it had when it was read.
add_to_cart_read(r, caller, food_id, quantity, instructions) ==
    /\ req[r] = NoReq
    /\ IF ~is_authenticated(caller)
       THEN LoginRequired(caller, food_id)
       ELSE IF food_id \notin DOMAIN foods
       THEN NotFound("add_to_cart", caller, food_id)
       ELSE IF ~foods[food_id].is_available
       THEN Reply("add_to_cart", caller, food_id, 400, "Food item not available")
       ELSE LET existing == {c \in carts : c.user_id = caller /\ c.food_id = food_id}
            IN  /\ req' = [req EXCEPT ![r] =
                               [user |-> caller,
                                cart_items |-> IF existing = {} THEN {}
                                               ELSE {MinRow(existing)},
                                food_id |-> food_id,
                                quantity |-> quantity,
                                instructions |-> instructions]]
                /\ last' = Response("add_to_cart_read", caller, food_id, 0, "")
                /\ UNCHANGED db

AddToCartRead(C, F, Q, I) ==
    \E r \in Reqs, caller \in C, food_id \in F, quantity \in Q, instructions \in I :
        add_to_cart_read(r, caller, food_id, quantity, instructions)

\* add_to_cart on the threaded server, second step: lines 290-303.  The
\* UPDATE writes the quantity computed from the row as it was read; when the
\* row is gone it matches nothing, the ORM raises StaleDataError and the
\* request ends in 500.  The INSERT of a new row always succeeds: no unique
\* constraint covers (user_id, food_id).
add_to_cart_commit(r) ==
    /\ req[r] # NoReq
    /\ req' = [req EXCEPT ![r] = NoReq]
    /\ \E caller \in {req[r].user} :
       LET food_id == req[r].food_id
           quantity == req[r].quantity
           instructions == req[r].instructions
       IN  IF req[r].cart_items # {}
           THEN LET cart_item == MinRow(req[r].cart_items)
                    merged ==
                        IF instructions # ""
                        THEN IF cart_item.special_instructions # ""
                             THEN cart_item.special_instructions \o "; " \o instructions
                             ELSE instructions
                        ELSE cart_item.special_instructions
                IN  IF ~\E c \in carts : c.id = cart_item.id
                    THEN /\ last' = Response("add_to_cart", caller, food_id, 500, "")
                         /\ UNCHANGED db
                    ELSE /\ carts' = {c \in carts : c.id # cart_item.id} \cup
                                {[cart_item EXCEPT !.quantity = @ + quantity,
                                                   !.special_instructions = merged]}
                         /\ UNCHANGED <<users, foods, orders, nextCartId, nextOrderId,
                                        source, otherTables>>
                         /\ last' = Response("add_to_cart", caller, food_id, 200,
                                             "added to cart!")
                                    @@ [quantity |-> quantity,
                                        instructions |-> instructions,
                                        cart_count |-> get_cart_count(caller)']
           ELSE /\ carts' = carts \cup
                       {[id |-> nextCartId, user_id |-> caller, food_id |-> food_id,
                         quantity |-> quantity, special_instructions |-> instructions]}
                /\ nextCartId' = nextCartId + 1
                /\ UNCHANGED <<users, foods, orders, nextOrderId, source, otherTables>>
                /\ last' = Response("add_to_cart", caller, food_id, 200, "added to cart!")
                           @@ [quantity |-> quantity, instructions |-> instructions,
                               cart_count |-> get_cart_count(caller)']

AddToCartCommit == \E r \in Reqs : add_to_cart_commit(r)

\* update_cart without the test of the row's owner.
update_cart_any_owner(caller, item_id, quantity) ==
    IF ~is_authenticated(caller) THEN LoginRedirect("update_cart", caller, item_id)
    ELSE IF ~\E c \in carts : c.id = item_id THEN NotFound("update_cart", caller, item_id)
    ELSE LET cart_item == CHOOSE c \in carts : c.id = item_id
         IN  /\ carts' = IF quantity < 1
                         THEN carts \ {cart_item}
                         ELSE (carts \ {cart_item}) \cup
                              {[cart_item EXCEPT !.quantity = quantity]}
             /\ UNCHANGED <<users, foods, orders, nextCartId, nextOrderId,
                            source, req, otherTables>>
             /\ LET subtotal == calculate_cart_total(caller, {})'
                IN  last' = Response("update_cart", caller, item_id, 200,
                                     IF quantity < 1 THEN "Item removed from cart"
                                     ELSE "Cart updated")
                            @@ [quantity |-> quantity,
                                subtotal |-> subtotal,
                                delivery_charge |-> delivery_charge(subtotal),
                                total |-> subtotal + delivery_charge(subtotal),
                                cart_count |-> get_cart_count(caller)']

\* update_cart that adds the quantity to the one the row has.
update_cart_adds(caller, item_id, quantity) ==
    IF ~is_authenticated(caller) THEN LoginRedirect("update_cart", caller, item_id)
    ELSE IF ~\E c \in carts : c.id = item_id THEN NotFound("update_cart", caller, item_id)
    ELSE LET cart_item == CHOOSE c \in carts : c.id = item_id
         IN  IF cart_item.user_id # caller THEN Forbidden("update_cart", caller, item_id)
             ELSE /\ carts' = IF quantity < 1
                              THEN carts \ {cart_item}
                              ELSE (carts \ {cart_item}) \cup
                                   {[cart_item EXCEPT !.quantity = @ + quantity]}
                  /\ UNCHANGED <<users, foods, orders, nextCartId, nextOrderId,
                                 source, req, otherTables>>
                  /\ LET subtotal == calculate_cart_total(caller, {})'
                     IN  last' = Response("update_cart", caller, item_id, 200,
                                          IF quantity < 1 THEN "Item removed from cart"
                                          ELSE "Cart updated")
                                 @@ [quantity |-> quantity,
                                     subtotal |-> subtotal,
                                     delivery_charge |-> delivery_charge(subtotal),
                                     total |-> subtotal + delivery_charge(subtotal),
                                     cart_count |-> get_cart_count(caller)']

update_cart(caller, item_id, quantity) ==
    IF ~is_authenticated(caller) THEN LoginRedirect("update_cart", caller, item_id)
    ELSE IF ~\E c \in carts : c.id = item_id THEN NotFound("update_cart", caller, item_id)
    ELSE LET cart_item == CHOOSE c \in carts : c.id = item_id
         IN  IF cart_item.user_id # caller THEN Forbidden("update_cart", caller, item_id)
             ELSE /\ carts' = IF quantity < 1
                              THEN carts \ {cart_item}
                              ELSE (carts \ {cart_item}) \cup
                                   {[cart_item EXCEPT !.quantity = quantity]}
                  /\ UNCHANGED <<users, foods, orders, nextCartId, nextOrderId,
                                 source, req, otherTables>>
                  /\ LET subtotal == calculate_cart_total(caller, {})'
                     IN  last' = Response("update_cart", caller, item_id, 200,
                                          IF quantity < 1 THEN "Item removed from cart"
                                          ELSE "Cart updated")
                                 @@ [quantity |-> quantity,
                                     subtotal |-> subtotal,
                                     delivery_charge |-> delivery_charge(subtotal),
                                     total |-> subtotal + delivery_charge(subtotal),
                                     cart_count |-> get_cart_count(caller)']

UpdateCart(C, Q) ==
    \E caller \in C, item_id \in CartIds, quantity \in Q :
        update_cart(caller, item_id, quantity)

\* remove_from_cart without the test of the row's owner.
remove_from_cart_any_owner(caller, item_id) ==
    IF ~is_authenticated(caller) THEN LoginRedirect("remove_from_cart", caller, item_id)
    ELSE IF ~\E c \in carts : c.id = item_id
    THEN NotFound("remove_from_cart", caller, item_id)
    ELSE LET cart_item == CHOOSE c \in carts : c.id = item_id
         IN  /\ carts' = carts \ {cart_item}
             /\ last' = Response("remove_from_cart", caller, item_id, 302,
                                 "Item removed from cart")
             /\ UNCHANGED <<users, foods, orders, nextCartId, nextOrderId,
                            source, req, otherTables>>

remove_from_cart(caller, item_id) ==
    IF ~is_authenticated(caller) THEN LoginRedirect("remove_from_cart", caller, item_id)
    ELSE IF ~\E c \in carts : c.id = item_id
    THEN NotFound("remove_from_cart", caller, item_id)
    ELSE LET cart_item == CHOOSE c \in carts : c.id = item_id
         IN  IF cart_item.user_id # caller
             THEN Forbidden("remove_from_cart", caller, item_id)
             ELSE /\ carts' = carts \ {cart_item}
                  /\ last' = Response("remove_from_cart", caller, item_id, 302,
                                      "Item removed from cart")
                  /\ UNCHANGED <<users, foods, orders, nextCartId, nextOrderId,
                                 source, req, otherTables>>

RemoveFromCart(C) ==
    \E caller \in C, item_id \in CartIds : remove_from_cart(caller, item_id)

\* The cart page: the subtotal, delivery charge and total it renders.
cart(caller) ==
    IF ~is_authenticated(caller) THEN LoginRedirect("cart", caller, 0)
    ELSE LET subtotal == calculate_cart_total(caller, {})
         IN  /\ last' = Response("cart", caller, 0, 200, "")
                        @@ [subtotal |-> subtotal,
                            delivery_charge |-> delivery_charge(subtotal),
                            total |-> subtotal + delivery_charge(subtotal)]
             /\ UNCHANGED <<db, req>>

ViewCart(C) == \E caller \in C : cart(caller)

\* The context processor, run for every rendered page; here for the menu
\* page, which any caller may open.
utility_processor(caller) ==
    /\ last' = Response("menu", caller, 0, 200, "")
               @@ [cart_count |-> get_cart_count(caller),
                   subtotal |-> calculate_cart_total(caller, {})]
    /\ UNCHANGED <<db, req>>

ViewMenu(C) == \E caller \in C : utility_processor(caller)

\* ----------------------------------------------------------- order routes
RECURSIVE OrderItemsOfOne(_)
\* The loop of lines 405-413 with the quantity left at the column default.
OrderItemsOfOne(cart_items) ==
    IF cart_items = {} THEN <<>>
    ELSE LET cart_item == MinRow(cart_items)
         IN  <<[food_id |-> cart_item.food_id,
                quantity |-> 1,
                price |-> foods[cart_item.food_id].price,
                special_instructions |-> cart_item.special_instructions]>>
             \o OrderItemsOfOne(cart_items \ {cart_item})

RECURSIVE OrderItems(_)
\* The loop of lines 405-413 over the cart rows read at line 368, in id
\* order.
OrderItems(cart_items) ==
    IF cart_items = {} THEN <<>>
    ELSE LET cart_item == MinRow(cart_items)
         IN  <<[food_id |-> cart_item.food_id,
                quantity |-> cart_item.quantity,
                price |-> foods[cart_item.food_id].price,
                special_instructions |-> cart_item.special_instructions]>>
             \o OrderItems(cart_items \ {cart_item})

\* Lines 382-422 of checkout for the rows `cart_items` read at line 368:
\* the total (a fresh query of the cart), the Order and its OrderItems, the
\* deletes of the rows read, one commit.  A DELETE that matches no row (the
\* row is already gone) is a warning of the ORM, not an error.  A duplicate
\* order_number fails the INSERT at the flush (unique column): the request
\* ends in 500 and nothing is persisted.
\* The insert of checkout on an orders table with no unique order_number.
PlaceOrderAnyNumber(caller, cart_items, order_number) ==
    LET subtotal == calculate_cart_total(caller, cart_items)
        total == subtotal + delivery_charge(subtotal)
    IN  /\ orders' = orders @@ (nextOrderId :>
               [order_number |-> order_number,
                user_id |-> caller,
                total_amount |-> total,
                status |-> "pending",
                created_at |-> now,
                items |-> OrderItems(cart_items)])
        /\ source' = source @@ (nextOrderId :> {c.id : c \in cart_items})
        /\ nextOrderId' = nextOrderId + 1
        /\ carts' = {c \in carts : ~\E d \in cart_items : d.id = c.id}
        /\ last' = Response("checkout", caller, nextOrderId, 302,
                            "Order placed successfully!")
                   @@ [order_number |-> order_number]
        /\ UNCHANGED <<users, foods, nextCartId, otherTables>>

PlaceOrder(caller, cart_items, order_number) ==
    LET subtotal == calculate_cart_total(caller, cart_items)
        total == subtotal + delivery_charge(subtotal)
    IN  IF \E o \in DOMAIN orders : orders[o].order_number = order_number
        THEN /\ last' = Response("checkout", caller, 0, 500, "")
                        @@ [order_number |-> order_number]
             /\ UNCHANGED db
        ELSE /\ orders' = orders @@ (nextOrderId :>
                    [order_number |-> order_number,
                     user_id |-> caller,
                     total_amount |-> total,
                     status |-> "pending",
                     created_at |-> now,
                     items |-> OrderItems(cart_items)])
             /\ source' = source @@ (nextOrderId :> {c.id : c \in cart_items})
             /\ nextOrderId' = nextOrderId + 1
             /\ carts' = {c \in carts : ~\E d \in cart_items : d.id = c.id}
             /\ last' = Response("checkout", caller, nextOrderId, 302,
                                 "Order placed successfully!")
                        @@ [order_number |-> order_number]
             /\ UNCHANGED <<users, foods, nextCartId, otherTables>>

\* The checkout page when the form is not a valid submission (a GET, or a
\* POST that fails validation): it renders the totals and changes nothing.
CheckoutPage(caller) ==
    LET subtotal == calculate_cart_total(caller, {})
    IN  /\ last' = Response("checkout", caller, 0, 200, "")
                   @@ [subtotal |-> subtotal,
                       delivery_charge |-> delivery_charge(subtotal),
                       total |-> subtotal + delivery_charge(subtotal)]
        /\ UNCHANGED db

EmptyCart(caller) ==
    /\ last' = Response("checkout", caller, 0, 302, "Your cart is empty!")
    /\ UNCHANGED db

\* checkout without the test for an empty cart.
checkout_any_cart(caller, valid, order_number) ==
    IF ~is_authenticated(caller) THEN LoginRedirect("checkout", caller, 0)
    ELSE LET cart_items == CartOf(caller)
         IN  /\ UNCHANGED req
             /\ IF ~valid THEN CheckoutPage(caller)
                ELSE PlaceOrder(caller, cart_items, order_number)

\* checkout served with no other request in between.
checkout(caller, valid, order_number) ==
    IF ~is_authenticated(caller) THEN LoginRedirect("checkout", caller, 0)
    ELSE LET cart_items == CartOf(caller)
         IN  /\ UNCHANGED req
             /\ IF cart_items = {} THEN EmptyCart(caller)
                ELSE IF ~valid THEN CheckoutPage(caller)
                ELSE PlaceOrder(caller, cart_items, order_number)

Checkout(C, V, N) ==
    \E caller \in C, valid \in V, order_number \in N :
        checkout(caller, valid, order_number)

\* checkout on the threaded server, first step: line 368 reads the cart.
checkout_read(r, caller) ==
    /\ req[r] = NoReq
    /\ IF ~is_authenticated(caller) THEN LoginRedirect("checkout", caller, 0)
       ELSE LET cart_items == CartOf(caller)
            IN  IF cart_items = {}
                THEN EmptyCart(caller) /\ UNCHANGED req
                ELSE /\ req' = [req EXCEPT ![r] =
                                    [user |-> caller, cart_items |-> cart_items]]
                     /\ last' = Response("checkout_read", caller, 0, 0, "")
                     /\ UNCHANGED db

CheckoutRead(C) == \E r \in Reqs, caller \in C : checkout_read(r, caller)

\* checkout on the threaded server, second step: lines 374-433.
checkout_submit(r, valid, order_number) ==
    /\ req[r] # NoReq
    /\ req' = [req EXCEPT ![r] = NoReq]
    /\ IF ~valid THEN CheckoutPage(req[r].user)
       ELSE PlaceOrder(req[r].user, req[r].cart_items, order_number)

CheckoutSubmit(V, N) ==
    \E r \in Reqs, valid \in V, order_number \in N :
        checkout_submit(r, valid, order_number)

order_success(caller, order_id) ==
    IF ~is_authenticated(caller) THEN LoginRedirect("order_success", caller, order_id)
    ELSE IF order_id \notin DOMAIN orders THEN NotFound("order_success", caller, order_id)
    ELSE IF orders[order_id].user_id # caller /\ ~users[caller].is_admin
    THEN Forbidden("order_success", caller, order_id)
    ELSE Reply("order_success", caller, order_id, 200, "")

OrderSuccess(C) ==
    \E caller \in C, order_id \in OrderIds : order_success(caller, order_id)

\* order_details with the ownership test left out.
order_details_any_user(caller, order_id) ==
    IF ~is_authenticated(caller) THEN LoginRedirect("order_details", caller, order_id)
    ELSE IF order_id \notin DOMAIN orders THEN NotFound("order_details", caller, order_id)
    ELSE Reply("order_details", caller, order_id, 200, "")

order_details(caller, order_id) ==
    IF ~is_authenticated(caller) THEN LoginRedirect("order_details", caller, order_id)
    ELSE IF order_id \notin DOMAIN orders THEN NotFound("order_details", caller, order_id)
    ELSE IF orders[order_id].user_id # caller /\ ~users[caller].is_admin
    THEN Forbidden("order_details", caller, order_id)
    ELSE Reply("order_details", caller, order_id, 200, "")

OrderDetails(C) ==
    \E caller \in C, order_id \in OrderIds : order_details(caller, order_id)

\* cancel_order that still cancels an order being prepared.
cancel_order_while_preparing(caller, order_id) ==
    IF ~is_authenticated(caller) THEN LoginRedirect("cancel_order", caller, order_id)
    ELSE IF order_id \notin DOMAIN orders THEN NotFound("cancel_order", caller, order_id)
    ELSE IF orders[order_id].user_id # caller
    THEN Forbidden("cancel_order", caller, order_id)
    ELSE IF orders[order_id].status \notin {"pending", "confirmed", "preparing"}
    THEN Reply("cancel_order", caller, order_id, 302,
               "Order cannot be cancelled at this stage")
    ELSE /\ orders' = [orders EXCEPT ![order_id].status = "cancelled"]
         /\ last' = Response("cancel_order", caller, order_id, 302,
                             "Order cancelled successfully")
         /\ UNCHANGED <<users, foods, carts, nextCartId, nextOrderId, source, req, otherTables>>

\* cancel_order that lets an admin cancel the order of any user.
cancel_order_admin_exempt(caller, order_id) ==
    IF ~is_authenticated(caller) THEN LoginRedirect("cancel_order", caller, order_id)
    ELSE IF order_id \notin DOMAIN orders THEN NotFound("cancel_order", caller, order_id)
    ELSE IF orders[order_id].user_id # caller /\ ~users[caller].is_admin
    THEN Forbidden("cancel_order", caller, order_id)
    ELSE IF orders[order_id].status \notin {"pending", "confirmed"}
    THEN Reply("cancel_order", caller, order_id, 302,
               "Order cannot be cancelled at this stage")
    ELSE /\ orders' = [orders EXCEPT ![order_id].status = "cancelled"]
         /\ last' = Response("cancel_order", caller, order_id, 302,
                             "Order cancelled successfully")
         /\ UNCHANGED <<users, foods, carts, nextCartId, nextOrderId, source, req, otherTables>>

cancel_order(caller, order_id) ==
    IF ~is_authenticated(caller) THEN LoginRedirect("cancel_order", caller, order_id)
    ELSE IF order_id \notin DOMAIN orders THEN NotFound("cancel_order", caller, order_id)
    ELSE IF orders[order_id].user_id # caller
    THEN Forbidden("cancel_order", caller, order_id)
    ELSE IF orders[order_id].status \notin {"pending", "confirmed"}
    THEN Reply("cancel_order", caller, order_id, 302,
               "Order cannot be cancelled at this stage")
    ELSE /\ orders' = [orders EXCEPT ![order_id].status = "cancelled"]
         /\ last' = Response("cancel_order", caller, order_id, 302,
                             "Order cancelled successfully")
         /\ UNCHANGED <<users, foods, carts, nextCartId, nextOrderId, source, req, otherTables>>

CancelOrder(C) ==
    \E caller \in C, order_id \in OrderIds : cancel_order(caller, order_id)

\* ----------------------------------------------------------- admin routes
\* admin_required that lets every logged-in caller through.
admin_required_any_user(op, caller, target, handler) ==
    IF ~is_authenticated(caller) THEN LoginRedirect(op, caller, target)
    ELSE handler

\* login_required, then admin_required, in front of an admin handler.
admin_required(op, caller, target, handler) ==
    IF ~is_authenticated(caller) THEN LoginRedirect(op, caller, target)
    ELSE IF ~users[caller].is_admin THEN Forbidden(op, caller, target)
    ELSE handler

\* edit_food that also reprices the order items of the food.
edit_food_reprices_orders(caller, food_id, price, is_available) ==
    admin_required("edit_food", caller, food_id,
        IF food_id \notin DOMAIN foods THEN NotFound("edit_food", caller, food_id)
        ELSE /\ foods' = [foods EXCEPT ![food_id] =
                              [price |-> price, is_available |-> is_available]]
             /\ orders' = [o \in DOMAIN orders |->
                              [orders[o] EXCEPT !.items =
                                  [i \in 1..Len(orders[o].items) |->
                                      IF orders[o].items[i].food_id = food_id
                                      THEN [orders[o].items[i] EXCEPT !.price = price]
                                      ELSE orders[o].items[i]]]]
             /\ last' = Response("edit_food", caller, food_id, 302,
                                 "Food item updated successfully!")
             /\ UNCHANGED <<users, carts, nextCartId, nextOrderId, source, req, otherTables>>)

edit_food(caller, food_id, price, is_available) ==
    admin_required("edit_food", caller, food_id,
        IF food_id \notin DOMAIN foods THEN NotFound("edit_food", caller, food_id)
        ELSE /\ foods' = [foods EXCEPT ![food_id] =
                              [price |-> price, is_available |-> is_available]]
             /\ last' = Response("edit_food", caller, food_id, 302,
                                 "Food item updated successfully!")
             /\ UNCHANGED <<users, carts, orders, nextCartId, nextOrderId,
                            source, req, otherTables>>)

EditFood(C, F, A) ==
    \E caller \in C, food_id \in F, price \in Prices, is_available \in A :
        edit_food(caller, food_id, price, is_available)

\* update_order_status without the test of the value.
update_order_status_any_value(caller, order_id, new_status) ==
    admin_required("update_order_status", caller, order_id,
        IF order_id \notin DOMAIN orders
        THEN NotFound("update_order_status", caller, order_id)
        ELSE /\ orders' = [orders EXCEPT ![order_id].status = new_status]
             /\ last' = Response("update_order_status", caller, order_id, 200, "")
                        @@ [success |-> TRUE, new_status |-> new_status]
             /\ UNCHANGED <<users, foods, carts, nextCartId, nextOrderId,
                            source, req, otherTables>>)

update_order_status(caller, order_id, new_status) ==
    admin_required("update_order_status", caller, order_id,
        IF order_id \notin DOMAIN orders
        THEN NotFound("update_order_status", caller, order_id)
        ELSE IF new_status \in {"pending", "confirmed", "preparing", "delivered",
                                "cancelled"}
        THEN /\ orders' = [orders EXCEPT ![order_id].status = new_status]
             /\ last' = Response("update_order_status", caller, order_id, 200, "")
                        @@ [success |-> TRUE, new_status |-> new_status]
             /\ UNCHANGED <<users, foods, carts, nextCartId, nextOrderId,
                            source, req, otherTables>>
        ELSE /\ last' = Response("update_order_status", caller, order_id, 400, "")
                        @@ [success |-> FALSE, new_status |-> new_status]
             /\ UNCHANGED <<db, req>>)

UpdateOrderStatus(C) ==
    \E caller \in C, order_id \in OrderIds, new_status \in StatusInputs :
        update_order_status(caller, order_id, new_status)

\* The user ids a request may name: those of the users and the next one,
\* which names no user.
NextUserId ==
    IF DOMAIN users = {} THEN 1
    ELSE (CHOOSE u \in DOMAIN users : \A v \in DOMAIN users : v <= u) + 1

NamedUserIds == DOMAIN users \cup {NextUserId}

\* The email the edit form shows for a user (AdminUserForm(obj=user)).
PrefilledEmail(user_id) ==
    IF user_id \in DOMAIN users THEN users[user_id].email ELSE ""

\* edit_user without the self-demotion test of lines 897-899.
edit_user_no_self_test(caller, user_id, email, form_is_admin) ==
    admin_required("edit_user", caller, user_id,
        IF user_id \notin DOMAIN users THEN NotFound("edit_user", caller, user_id)
        ELSE IF \E v \in DOMAIN users : users[v].email = email /\ v # user_id
        THEN /\ last' = Response("edit_user", caller, user_id, 200,
                                 "Email already registered by another user!")
                        @@ [is_admin |-> form_is_admin, email |-> email]
             /\ UNCHANGED <<db, req>>
        ELSE /\ users' = [users EXCEPT ![user_id].email = email,
                                       ![user_id].is_admin = form_is_admin]
             /\ last' = Response("edit_user", caller, user_id, 302,
                                 "User updated successfully!")
                        @@ [is_admin |-> form_is_admin, email |-> email]
             /\ UNCHANGED <<foods, carts, orders, nextCartId, nextOrderId,
                            source, req, otherTables>>)

\* edit_user that writes the email without looking for another holder.
edit_user_no_email_test(caller, user_id, email, form_is_admin) ==
    admin_required("edit_user", caller, user_id,
        IF user_id \notin DOMAIN users THEN NotFound("edit_user", caller, user_id)
        ELSE /\ users' = [users EXCEPT ![user_id].email = email,
                                       ![user_id].is_admin =
                                           IF user_id = caller /\ ~form_is_admin
                                           THEN TRUE
                                           ELSE form_is_admin]
             /\ last' = Response("edit_user", caller, user_id, 302,
                                 "User updated successfully!")
                        @@ [is_admin |-> form_is_admin, email |-> email]
             /\ UNCHANGED <<foods, carts, orders, nextCartId, nextOrderId,
                            source, req, otherTables>>)

\* edit_user with a form that passes validation.
edit_user(caller, user_id, email, form_is_admin) ==
    admin_required("edit_user", caller, user_id,
        IF user_id \notin DOMAIN users THEN NotFound("edit_user", caller, user_id)
        ELSE IF \E v \in DOMAIN users : users[v].email = email /\ v # user_id
        THEN /\ last' = Response("edit_user", caller, user_id, 200,
                                 "Email already registered by another user!")
                        @@ [is_admin |-> form_is_admin, email |-> email]
             /\ UNCHANGED <<db, req>>
        ELSE /\ users' = [users EXCEPT ![user_id].email = email,
                                       ![user_id].is_admin =
                                           IF user_id = caller /\ ~form_is_admin
                                           THEN TRUE
                                           ELSE form_is_admin]
             /\ last' = Response("edit_user", caller, user_id, 302,
                                 "User updated successfully!")
                        @@ [is_admin |-> form_is_admin, email |-> email]
             /\ UNCHANGED <<foods, carts, orders, nextCartId, nextOrderId,
                            source, req, otherTables>>)

\* E: the emails typed over the prefilled one.
EditUser(C, E) ==
    \E caller \in C, user_id \in NamedUserIds, form_is_admin \in BOOLEAN :
        \E email \in E \cup {PrefilledEmail(user_id)} :
            edit_user(caller, user_id, email, form_is_admin)

\* The id SQLite gives the next food: one more than the largest id in use.
NextFoodId ==
    IF DOMAIN foods = {} THEN 1
    ELSE (CHOOSE f \in DOMAIN foods : \A g \in DOMAIN foods : g <= f) + 1

add_food(caller, valid, price, is_available) ==
    admin_required("add_food", caller, 0,
        IF ~valid THEN Reply("add_food", caller, 0, 200, "")
        ELSE /\ foods' = foods @@
                    (NextFoodId :> [price |-> price, is_available |-> is_available])
             /\ last' = Response("add_food", caller, NextFoodId, 302,
                                 "Food item added successfully!")
             /\ UNCHANGED <<users, carts, orders, nextCartId, nextOrderId,
                            source, req, otherTables>>)

AddFood(C, V, A) ==
    \E caller \in C, valid \in V, price \in Prices, is_available \in A :
        add_food(caller, valid, price, is_available)

\* delete_food on tables whose food_id columns accept NULL or are left
\* alone: the food is deleted whatever refers to it.
delete_food_unchecked(caller, food_id) ==
    admin_required("delete_food", caller, food_id,
        IF food_id \notin DOMAIN foods THEN NotFound("delete_food", caller, food_id)
        ELSE /\ foods' = [f \in DOMAIN foods \ {food_id} |-> foods[f]]
             /\ last' = Response("delete_food", caller, food_id, 302,
                                 "Food item deleted successfully!")
             /\ UNCHANGED <<users, carts, orders, nextCartId, nextOrderId,
                            source, req, otherTables>>)

\* delete_food: deleting a food that order items or cart rows refer to sets
\* their food_id to NULL, which the NOT NULL columns refuse: the commit
\* fails, nothing is deleted and the response is the 500 page.
delete_food(caller, food_id) ==
    admin_required("delete_food", caller, food_id,
        IF food_id \notin DOMAIN foods THEN NotFound("delete_food", caller, food_id)
        ELSE IF \/ \E c \in carts : c.food_id = food_id
                \/ \E o \in DOMAIN orders :
                        \E i \in DOMAIN orders[o].items :
                            orders[o].items[i].food_id = food_id
        THEN Reply("delete_food", caller, food_id, 500, "")
        ELSE /\ foods' = [f \in DOMAIN foods \ {food_id} |-> foods[f]]
             /\ last' = Response("delete_food", caller, food_id, 302,
                                 "Food item deleted successfully!")
             /\ UNCHANGED <<users, carts, orders, nextCartId, nextOrderId,
                            source, req, otherTables>>)

DeleteFood(C) ==
    \E caller \in C, food_id \in DOMAIN foods \cup {NextFoodId} :
        delete_food(caller, food_id)

\* The admin pages and feeds that only read: the dashboard, the lists, the
\* receipt, the exports and the notification feeds.
AdminPages ==
    {"admin_dashboard", "manage_foods", "admin_orders", "print_receipt",
     "admin_users", "admin_services", "kds", "export_sales",
     "admin_notifications", "new_orders_check", "manage_coupons",
     "admin_newsletter", "export_newsletter"}

admin_page(caller, page) ==
    admin_required(page, caller, 0, Reply(page, caller, 0, 200, ""))

AdminPage(C, P) == \E caller \in C, page \in P : admin_page(caller, page)

\* ------------------------------------------------------------ user routes
\* register: a logged-in caller is sent to the homepage; a valid form whose
\* email a user holds is answered with a message; otherwise the user is
\* inserted under the next id.
register(caller, valid, email) ==
    IF is_authenticated(caller) THEN Reply("register", caller, 0, 302, "")
    ELSE IF ~valid
    THEN /\ last' = Response("register", caller, 0, 200, "")
                    @@ [email |-> email, valid |-> valid]
         /\ UNCHANGED <<db, req>>
    ELSE IF \E u \in DOMAIN users : users[u].email = email
    THEN /\ last' = Response("register", caller, 0, 200, "Email already registered!")
                    @@ [email |-> email, valid |-> valid]
         /\ UNCHANGED <<db, req>>
    ELSE /\ users' = users @@ (NextUserId :> [is_admin |-> FALSE, email |-> email])
         /\ last' = Response("register", caller, NextUserId, 302,
                             "Registration successful! Please login.")
                    @@ [email |-> email, valid |-> valid]
         /\ UNCHANGED <<foods, carts, orders, nextCartId, nextOrderId,
                        source, req, otherTables>>

Register(C, V, E) ==
    \E caller \in C, valid \in V, email \in E : register(caller, valid, email)

\* The services page with a valid form: a new service request of the caller.
services_post(caller) ==
    IF ~is_authenticated(caller) THEN LoginRedirect("services", caller, 0)
    ELSE /\ services' = services \cup
                {[id |-> nextServiceId, user_id |-> caller, status |-> "pending"]}
         /\ nextServiceId' = nextServiceId + 1
         /\ last' = Response("services", caller, nextServiceId, 302,
                             "Service request submitted successfully!")
         /\ UNCHANGED <<users, foods, carts, orders, nextCartId, nextOrderId,
                        source, req, coupons, nextCouponId, newsletter, now>>

Services(C) == \E caller \in C : services_post(caller)

\* delete_user that leaves the user's orders in place.
delete_user_keeps_orders(caller, user_id) ==
    admin_required("delete_user", caller, user_id,
        IF user_id \notin DOMAIN users THEN NotFound("delete_user", caller, user_id)
        ELSE IF user_id = caller
        THEN Reply("delete_user", caller, user_id, 302,
                   "You cannot delete your own account!")
        ELSE /\ carts' = {c \in carts : c.user_id # user_id}
             /\ services' = {r \in services : r.user_id # user_id}
             /\ users' = [u \in DOMAIN users \ {user_id} |-> users[u]]
             /\ last' = Response("delete_user", caller, user_id, 302,
                                 "User and all associated data deleted successfully!")
             /\ UNCHANGED <<foods, orders, nextCartId, nextOrderId, source, req,
                            coupons, nextCouponId, nextServiceId, newsletter, now>>)

\* delete_user: the cart rows and service requests of the user are deleted
\* in bulk, the orders one by one (each with its items, cascade of
\* Order.items), then the user.
delete_user(caller, user_id) ==
    admin_required("delete_user", caller, user_id,
        IF user_id \notin DOMAIN users THEN NotFound("delete_user", caller, user_id)
        ELSE IF user_id = caller
        THEN Reply("delete_user", caller, user_id, 302,
                   "You cannot delete your own account!")
        ELSE /\ carts' = {c \in carts : c.user_id # user_id}
             /\ services' = {r \in services : r.user_id # user_id}
             /\ orders' = [o \in {p \in DOMAIN orders : orders[p].user_id # user_id}
                               |-> orders[o]]
             /\ users' = [u \in DOMAIN users \ {user_id} |-> users[u]]
             /\ last' = Response("delete_user", caller, user_id, 302,
                                 "User and all associated data deleted successfully!")
             /\ UNCHANGED <<foods, nextCartId, nextOrderId, source, req,
                            coupons, nextCouponId, nextServiceId, newsletter, now>>)

DeleteUser(C) ==
    \E caller \in C, user_id \in NamedUserIds : delete_user(caller, user_id)

ServiceStatusInputs == {"in_progress", "completed", "archived"}

update_service_status(caller, request_id, new_status) ==
    admin_required("update_service_status", caller, request_id,
        IF ~\E r \in services : r.id = request_id
        THEN NotFound("update_service_status", caller, request_id)
        ELSE IF new_status \in {"pending", "in_progress", "completed", "cancelled"}
        THEN /\ services' = {IF r.id = request_id
                                THEN [r EXCEPT !.status = new_status] ELSE r
                             : r \in services}
             /\ last' = Response("update_service_status", caller, request_id, 200, "")
                        @@ [success |-> TRUE]
             /\ UNCHANGED <<users, foods, carts, orders, nextCartId, nextOrderId,
                            source, req, coupons, nextCouponId, nextServiceId,
                            newsletter, now>>
        ELSE /\ last' = Response("update_service_status", caller, request_id, 400, "")
                        @@ [success |-> FALSE]
             /\ UNCHANGED <<db, req>>)

UpdateServiceStatus(C) ==
    \E caller \in C, request_id \in 1..nextServiceId,
       new_status \in ServiceStatusInputs :
        update_service_status(caller, request_id, new_status)

\* ------------------------------------------------------------ kitchen feed
\* The listings order_by(Order.created_at.asc()) can return for a set of
\* orders: every arrangement with no later order before an earlier one.
ByCreatedAsc(found) ==
    {s \in [1..Cardinality(found) -> found] :
        /\ \A i, j \in DOMAIN s : i # j => s[i] # s[j]
        /\ \A i, j \in DOMAIN s :
              i < j => orders[s[i]].created_at <= orders[s[j]].created_at}

\* get_kds_orders that also lists the pending orders.
get_kds_orders_with_pending(caller) ==
    admin_required("get_kds_orders", caller, 0,
        LET found == {o \in DOMAIN orders :
                         orders[o].status \in {"pending", "confirmed", "preparing"}}
        IN  /\ \E listing \in ByCreatedAsc(found) :
                  last' = Response("get_kds_orders", caller, 0, 200, "")
                          @@ [orders |-> listing]
            /\ UNCHANGED <<db, req>>)

get_kds_orders(caller) ==
    admin_required("get_kds_orders", caller, 0,
        LET found == {o \in DOMAIN orders :
                         orders[o].status \in {"confirmed", "preparing"}}
        IN  /\ \E listing \in ByCreatedAsc(found) :
                  last' = Response("get_kds_orders", caller, 0, 200, "")
                          @@ [orders |-> listing]
            /\ UNCHANGED <<db, req>>)

GetKdsOrders(C) == \E caller \in C : get_kds_orders(caller)

\* ------------------------------------------------------- newsletter routes
\* subscribe needs no login.  A subscriber is identified by the email, which
\* the table keeps unique.
subscribe(caller, email) ==
    IF email = "" THEN Reply("subscribe", caller, 0, 200, "Email is required")
    ELSE IF email \in newsletter
    THEN Reply("subscribe", caller, 0, 200, "You are already subscribed!")
    ELSE /\ newsletter' = newsletter \cup {email}
         /\ last' = Response("subscribe", caller, 0, 200, "Successfully subscribed!")
         /\ UNCHANGED <<users, foods, carts, orders, nextCartId, nextOrderId,
                        source, req, coupons, nextCouponId, services,
                        nextServiceId, now>>

Subscribe(C, E) == \E caller \in C, email \in E : subscribe(caller, email)

delete_subscriber(caller, email) ==
    admin_required("delete_subscriber", caller, 0,
        IF email \notin newsletter THEN NotFound("delete_subscriber", caller, 0)
        ELSE /\ newsletter' = newsletter \ {email}
             /\ last' = Response("delete_subscriber", caller, 0, 302,
                                 "Subscriber removed successfully!")
             /\ UNCHANGED <<users, foods, carts, orders, nextCartId, nextOrderId,
                            source, req, coupons, nextCouponId, services,
                            nextServiceId, now>>)

DeleteSubscriber(C, E) ==
    \E caller \in C, email \in E : delete_subscriber(caller, email)

\* edit_user and delete_user on the threaded server, first step:
\* login_required and admin_required read the caller's row and let an admin
\* through.  The request keeps its form.
admin_user_check(r, op, caller, user_id, email, form_is_admin) ==
    /\ req[r] = NoReq
    /\ IF ~is_authenticated(caller) THEN LoginRedirect(op, caller, user_id)
       ELSE IF ~users[caller].is_admin THEN Forbidden(op, caller, user_id)
       ELSE /\ req' = [req EXCEPT ![r] =
                           [user |-> caller, cart_items |-> {}, op |-> op,
                            user_id |-> user_id, email |-> email,
                            is_admin |-> form_is_admin]]
            /\ last' = Response("admin_required", caller, user_id, 0, "")
            /\ UNCHANGED db

AdminUserCheck(C) ==
    \E r \in Reqs, op \in {"edit_user", "delete_user"}, caller \in C,
       user_id \in DOMAIN users, form_is_admin \in BOOLEAN :
        admin_user_check(r, op, caller, user_id, PrefilledEmail(user_id), form_is_admin)

\* Second step of edit_user: lines 881-905, on the rows as they are now.
edit_user_write(r) ==
    /\ req[r] # NoReq
    /\ req[r].op = "edit_user"
    /\ req' = [req EXCEPT ![r] = NoReq]
    /\ LET caller == req[r].user
           user_id == req[r].user_id
       IN  IF user_id \notin DOMAIN users
           THEN /\ last' = Response("edit_user", caller, user_id, 404, "")
                /\ UNCHANGED db
           ELSE IF \E v \in DOMAIN users : users[v].email = req[r].email /\ v # user_id
           THEN /\ last' = Response("edit_user", caller, user_id, 200,
                                    "Email already registered by another user!")
                /\ UNCHANGED db
           ELSE /\ users' = [users EXCEPT ![user_id].email = req[r].email,
                                          ![user_id].is_admin =
                                              IF user_id = caller /\ ~req[r].is_admin
                                              THEN TRUE
                                              ELSE req[r].is_admin]
                /\ last' = Response("edit_user", caller, user_id, 302,
                                    "User updated successfully!")
                /\ UNCHANGED <<foods, carts, orders, nextCartId, nextOrderId,
                               source, otherTables>>

\* Second step of delete_user: lines 914-933, on the rows as they are now.
delete_user_write(r) ==
    /\ req[r] # NoReq
    /\ req[r].op = "delete_user"
    /\ req' = [req EXCEPT ![r] = NoReq]
    /\ LET caller == req[r].user
           user_id == req[r].user_id
       IN  IF user_id \notin DOMAIN users
           THEN /\ last' = Response("delete_user", caller, user_id, 404, "")
                /\ UNCHANGED db
           ELSE IF user_id = caller
           THEN /\ last' = Response("delete_user", caller, user_id, 302,
                                    "You cannot delete your own account!")
                /\ UNCHANGED db
           ELSE /\ carts' = {c \in carts : c.user_id # user_id}
                /\ services' = {x \in services : x.user_id # user_id}
                /\ orders' = [o \in {p \in DOMAIN orders : orders[p].user_id # user_id}
                                  |-> orders[o]]
                /\ users' = [u \in DOMAIN users \ {user_id} |-> users[u]]
                /\ last' = Response("delete_user", caller, user_id, 302,
                                    "User and all associated data deleted successfully!")
                /\ UNCHANGED <<foods, nextCartId, nextOrderId, source,
                               coupons, nextCouponId, nextServiceId, newsletter, now>>

\* ---------------------------------------------------------- coupon routes
\* str.upper() on the codes of Codes.
Upper(code) ==
    CASE code = "save" -> "SAVE"
      [] code = "new" -> "NEW"
      [] OTHER -> code

\* datetime.combine(date, datetime.max.time()): the last instant of the day.
EndOfDay(date) == date * TicksPerDay + (TicksPerDay - 1)

\* add_coupon.  Coupon.code is unique: a second coupon with the same code
\* fails the INSERT at the commit with an IntegrityError nothing catches, the
\* request ends in 500 and the session is rolled back.
add_coupon(caller, valid, code, date, active) ==
    admin_required("add_coupon", caller, 0,
        IF ~valid
        THEN /\ last' = Response("add_coupon", caller, 0, 200, "")
                        @@ [coupon_code |-> code, valid |-> valid]
             /\ UNCHANGED <<db, req>>
        ELSE IF \E c \in coupons : c.code = Upper(code)
        THEN /\ last' = Response("add_coupon", caller, 0, 500, "")
                        @@ [coupon_code |-> code, valid |-> valid]
             /\ UNCHANGED <<db, req>>
        ELSE /\ coupons' = coupons \cup
                    {[id |-> nextCouponId, code |-> Upper(code),
                      valid_to |-> EndOfDay(date), active |-> active,
                      created_at |-> now]}
             /\ nextCouponId' = nextCouponId + 1
             /\ last' = Response("add_coupon", caller, nextCouponId, 302,
                                 "Coupon created successfully!")
                        @@ [coupon_code |-> code, valid |-> valid]
             /\ UNCHANGED <<users, foods, carts, orders, nextCartId, nextOrderId,
                            source, req, services, nextServiceId, newsletter, now>>)

AddCoupon(C, V) ==
    \E caller \in C, valid \in V, code \in Codes, date \in Dates, active \in BOOLEAN :
        add_coupon(caller, valid, code, date, active)

delete_coupon(caller, coupon_id) ==
    admin_required("delete_coupon", caller, coupon_id,
        IF ~\E c \in coupons : c.id = coupon_id
        THEN NotFound("delete_coupon", caller, coupon_id)
        ELSE /\ coupons' = {c \in coupons : c.id # coupon_id}
             /\ last' = Response("delete_coupon", caller, coupon_id, 302,
                                 "Coupon deleted successfully!")
             /\ UNCHANGED <<users, foods, carts, orders, nextCartId, nextOrderId,
                            source, req, nextCouponId, services, nextServiceId, newsletter,
                       now>>)

DeleteCoupon(C) ==
    \E caller \in C, coupon_id \in 1..nextCouponId : delete_coupon(caller, coupon_id)

delete_expired_coupons(caller) ==
    admin_required("delete_expired_coupons", caller, 0,
        /\ coupons' = {c \in coupons : ~(c.valid_to < now)}
        /\ last' = Response("delete_expired_coupons", caller, 0, 302,
                            "expired coupons deleted successfully!")
        /\ UNCHANGED <<users, foods, carts, orders, nextCartId, nextOrderId,
                       source, req, nextCouponId, services, nextServiceId, newsletter,
                       now>>)

DeleteExpiredCoupons(C) == \E caller \in C : delete_expired_coupons(caller)

\* The coupons among `found` that ORDER BY created_at DESC may put first.
FirstByCreatedDesc(found) ==
    {c \in found : \A d \in found : d.created_at <= c.created_at}

\* The homepage without the filter on valid_to.
index_with_expired(caller) ==
    IF is_authenticated(caller) /\ users[caller].is_admin
    THEN Reply("index", caller, 0, 302, "")
    ELSE LET found == {c \in coupons : c.active = TRUE}
         IN  /\ \E active_coupon \in
                    IF found = {} THEN {0}
                    ELSE {c.id : c \in FirstByCreatedDesc(found)} :
                  last' = Response("index", caller, 0, 200, "")
                          @@ [active_coupon |-> active_coupon, at |-> now]
             /\ UNCHANGED <<db, req>>

\* The homepage: an admin is sent to the dashboard; everyone else is shown
\* the active coupon (0: none).
index(caller) ==
    IF is_authenticated(caller) /\ users[caller].is_admin
    THEN Reply("index", caller, 0, 302, "")
    ELSE LET found == {c \in coupons : c.active = TRUE /\ c.valid_to >= now}
         IN  /\ \E active_coupon \in
                    IF found = {} THEN {0}
                    ELSE {c.id : c \in FirstByCreatedDesc(found)} :
                  last' = Response("index", caller, 0, 200, "")
                          @@ [active_coupon |-> active_coupon, at |-> now]
             /\ UNCHANGED <<db, req>>

Index(C) == \E caller \in C : index(caller)

\* Time passes between two requests.
Tick ==
    /\ now' = now + 1
    /\ UNCHANGED <<users, foods, carts, orders, nextCartId, nextOrderId, source,
                   req, last, coupons, nextCouponId, services, nextServiceId,
                   newsletter>>

\* ----------------------------------------------------------- sales figures
\* A date is a day number; datetime.combine(date, datetime.min.time()) and
\* EndOfDay(date) are its first and last instant, and utcnow().date() is the
\* day of the clock.  strftime('%H') gives the position inside the day.
DayStart(date) == date * TicksPerDay

Today == now \div TicksPerDay

Hour(created_at) == created_at % TicksPerDay

\* timedelta(days=6): the default range is the last seven days.
DefaultSpan == 6

\* db.func.sum over the rows of `found`, `val` giving the summed column.
RECURSIVE SumOf(_, _)
SumOf(found, val) ==
    IF found = {} THEN 0
    ELSE LET x == CHOOSE y \in found : TRUE
         IN  val[x] + SumOf(found \ {x}, val)

\* The date filter of the figures without the filter on the status.
OrdersBetween(first, final) ==
    {o \in DOMAIN orders :
        orders[o].created_at >= first /\ orders[o].created_at <= final}

\* The filter every sales figure applies: created_at inside the instants
\* first..final and status != 'cancelled'.
SalesBetween(first, final) ==
    {o \in DOMAIN orders :
        /\ orders[o].created_at >= first
        /\ orders[o].created_at <= final
        /\ orders[o].status # "cancelled"}

SumAmount(found) == SumOf(found, [o \in found |-> orders[o].total_amount])

\* The order items, as <<order, position>>, of the orders `found` whose food
\* the join with the foods table finds.
ItemsJoined(found) ==
    {oi \in UNION {{<<o, i>> : i \in DOMAIN orders[o].items} : o \in found} :
        orders[oi[1]].items[oi[2]].food_id \in DOMAIN foods}

\* group_by over the food of the joined items, summing `val`.  (Every food
\* of the model has its own name and its own category; the model has fewer
\* foods than the limit of five.)
GroupByFood(found, val) ==
    LET joined == ItemsJoined(found)
        groups == {orders[oi[1]].items[oi[2]].food_id : oi \in joined}
    IN  [f \in groups |->
            SumOf({oi \in joined : orders[oi[1]].items[oi[2]].food_id = f},
                  [oi \in joined |-> val[oi]])]

\* The range the dashboard uses: the dates of the query string when both
\* parse, else the last seven days; a start after the end is replaced.
DashboardRange(given, start_date, end_date) ==
    LET e == IF given THEN end_date ELSE Today
        s == IF given THEN start_date ELSE Today - DefaultSpan
    IN  [start_date |-> IF s > e THEN e - DefaultSpan ELSE s, end_date |-> e]

admin_dashboard(caller, given, start_date, end_date) ==
    admin_required("admin_dashboard", caller, 0,
        LET range == DashboardRange(given, start_date, end_date)
            delta == range.end_date - range.start_date
            today == SalesBetween(DayStart(Today), EndOfDay(Today))
            ranged == SalesBetween(DayStart(range.start_date), EndOfDay(range.end_date))
            joined == ItemsJoined(ranged)
        IN  /\ last' = Response("admin_dashboard", caller, 0, 200, "")
                       @@ [todays_sales |-> SumAmount(today),
                           start_date |-> range.start_date,
                           end_date |-> range.end_date,
                           sales |-> [i \in 1..(delta + 1) |->
                               SumAmount(SalesBetween(
                                   DayStart(range.start_date + i - 1),
                                   EndOfDay(range.start_date + i - 1)))],
                           hourly_sales |-> [h \in 0..(TicksPerDay - 1) |->
                               SumAmount({o \in today : Hour(orders[o].created_at) = h})],
                           top_foods |-> GroupByFood(ranged,
                               [oi \in joined |-> orders[oi[1]].items[oi[2]].quantity]),
                           category_sales |-> GroupByFood(ranged,
                               [oi \in joined |-> orders[oi[1]].items[oi[2]].price
                                                  * orders[oi[1]].items[oi[2]].quantity])]
            /\ UNCHANGED <<db, req>>)

AdminDashboard(C, D) ==
    \E caller \in C, given \in BOOLEAN, start_date \in D, end_date \in D :
        admin_dashboard(caller, given, start_date, end_date)

\* The listings order_by(Order.created_at.desc()) can return.
ByCreatedDesc(found) ==
    {s \in [1..Cardinality(found) -> found] :
        /\ \A i, j \in DOMAIN s : i # j => s[i] # s[j]
        /\ \A i, j \in DOMAIN s :
              i < j => orders[s[i]].created_at >= orders[s[j]].created_at}

\* export_sales: the same dates, with no replacement of a start after the
\* end; one row per order found.
export_sales(caller, given, start_date, end_date) ==
    admin_required("export_sales", caller, 0,
        LET e == IF given THEN end_date ELSE Today
            s == IF given THEN start_date ELSE Today - DefaultSpan
            found == SalesBetween(DayStart(s), EndOfDay(e))
        IN  /\ \E listing \in ByCreatedDesc(found) :
                  last' = Response("export_sales", caller, 0, 200, "")
                          @@ [start_date |-> s, end_date |-> e,
                              rows |-> [i \in DOMAIN listing |->
                                  [order |-> listing[i],
                                   total_amount |-> orders[listing[i]].total_amount,
                                   status |-> orders[listing[i]].status]]]
            /\ UNCHANGED <<db, req>>)

ExportSales(C, D) ==
    \E caller \in C, given \in BOOLEAN, start_date \in D, end_date \in D :
        export_sales(caller, given, start_date, end_date)

\* ------------------------------------------------------------------- Next
\* The bounds of a specification, as a predicate on the state a request
\* leaves: the handlers themselves have none.
Within(rows, ords, qty, len) ==
    /\ nextCartId <= rows + 1
    /\ nextOrderId <= ords + 1
    /\ \A c \in carts : c.quantity <= qty /\ Len(c.special_instructions) <= len

\* The order number of a checkout made in a later second than every earlier
\* one: the timestamp prefix makes it differ from theirs.
LaterSecond == {nextOrderId}

\* Order life cycle, order pages and the admin flag.  Checkouts may draw the
\* order number of an earlier order.
Next ==
    \/ AddToCart(Callers, {1}, {1}, {""})
            /\ Within(MaxLifeOrders, MaxLifeOrders, 1, 0)'
    \/ Checkout(Callers, {TRUE}, OrderNumbers)
            /\ Within(MaxLifeOrders, MaxLifeOrders, 1, 0)'
    \/ OrderSuccess(Callers)
    \/ OrderDetails(Callers)
    \/ CancelOrder(Callers)
    \/ UpdateOrderStatus(Callers)
    \/ EditUser(Callers, {})

Spec == Init /\ [][Next]_vars

\* Cart rows and the totals reported for them.
NextCart ==
    \/ AddToCart(Callers, FoodIds, {1, 2}, {""})
            /\ Within(MaxCartRows, 0, MaxQty, 0)'
    \/ UpdateCart(UserIds, {0, 2})
    \/ RemoveFromCart(UserIds)
    \/ ViewCart(Callers)
    \/ ViewMenu(Callers)
    \/ Checkout(Callers, {FALSE}, LaterSecond)
    \/ EditFood(UserIds, FoodIds, {TRUE})

SpecCart == Init /\ [][NextCart]_vars

\* Adding to the cart, with instructions: a guest (user 2) and a caller who
\* is not logged in, next to the one row of another user.
NextAdd ==
    \/ AddToCart({2, Anonymous}, FoodIds, Quantities, Instructions)
            /\ Within(MaxCartRows, 0, MaxQty, MaxInstrLen)'
    \/ RemoveFromCart({2, Anonymous})
    \/ AddToCart({1}, {1}, {1}, {""})
            /\ Within(MaxCartRows, 0, 1, 0)'

SpecAdd == Init /\ [][NextAdd]_vars

\* Checkout and what it persists: the cart of a guest (user 2), checkouts by
\* every caller, and the admin's price edits.
NextCheckout ==
    \/ AddToCart({2}, FoodIds, {1, 2}, {"", "a"})
            /\ Within(MaxCartRows, MaxOrders, MaxQty, 1)'
    \/ UpdateCart({2}, {0, 2})
    \/ Checkout(Callers, BOOLEAN, LaterSecond)
            /\ Within(MaxCartRows, MaxOrders, MaxQty, 1)'
    \/ EditFood(Callers, {1}, {TRUE})

SpecCheckout == Init /\ [][NextCheckout]_vars

\* The threaded server: the requests of one guest (user 2) served between
\* a checkout's cart read and its commit.
NextConc ==
    \/ AddToCart({2}, FoodIds, {1}, {""})
            /\ Within(MaxCartRows, MaxOrders, 1, 0)'
    \/ UpdateCart({2}, {0, 2})
    \/ RemoveFromCart({2})
    \/ CheckoutRead({2})
    \/ CheckoutSubmit({TRUE}, LaterSecond)
            /\ Within(MaxCartRows, MaxOrders, MaxQty, 0)'
    \/ EditFood({1}, {1}, {TRUE})

SpecConc == Init /\ [][NextConc]_vars

\* Coupons and the homepage, with the clock.
NextCoupon ==
    \/ AddCoupon(Callers, BOOLEAN) /\ nextCouponId' <= MaxCoupons + 1
    \/ DeleteCoupon(Callers)
    \/ DeleteExpiredCoupons(Callers)
    \/ Index(Callers)
    \/ Tick /\ now' <= MaxNow

SpecCoupon == Init /\ [][NextCoupon]_vars

\* Accounts: registration, and the admin's edits and deletions of users.
NextAccounts ==
    \/ Register({0, 2}, BOOLEAN, Emails) /\ NextUserId' <= MaxUsers + 1
    \/ EditUser(0..2, Emails)
    \/ DeleteUser({1, 2})

SpecAccounts == Init /\ [][NextAccounts]_vars

\* Deleting users who own cart rows, orders and service requests.
NextUsers ==
    \/ Register({0}, {TRUE}, {NewEmail}) /\ NextUserId' <= MaxUsers + 1
    \/ DeleteUser({1, 2})
    \/ AddToCart(2..MaxUsers, {1}, {1}, {""}) /\ Within(MaxUserRows, MaxUserRows, 1, 0)'
    \/ Checkout(2..MaxUsers, {TRUE}, LaterSecond)
            /\ Within(MaxUserRows, MaxUserRows, 1, 0)'
    \/ Services(2..MaxUsers) /\ nextServiceId' <= MaxUserRows + 1

SpecUsers == Init /\ [][NextUsers]_vars

\* How far the database is from the seeded one: the rows ever inserted, the
\* clock, the statuses moved off pending, and the seeded foods and users
\* that were changed, deleted or joined by new ones.
AdminChanges ==
    (nextCartId - 1) + (nextOrderId - 1) + (nextServiceId - 1) + (nextCouponId - 1)
    + Cardinality(newsletter) + now
    + Cardinality({o \in DOMAIN orders : orders[o].status # "pending"})
    + Cardinality({r \in services : r.status # "pending"})
    + Cardinality({f \in FoodIds \cup DOMAIN foods :
                     \/ f \notin DOMAIN foods
                     \/ f \notin FoodIds
                     \/ foods[f] # [price |-> IF f = 1 THEN 100 ELSE 250,
                                    is_available |-> TRUE]})
    + Cardinality({u \in UserIds \cup DOMAIN users :
                     \/ u \notin DOMAIN users
                     \/ u \notin UserIds
                     \/ users[u].is_admin # (u = 1)})

WithinChanges ==
    /\ AdminChanges <= MaxAdminChanges
    /\ \A c \in carts : c.quantity <= 1

\* Every admin operation, called by the admin, by a guest and by a caller
\* who is not logged in, next to the requests that fill the tables.  Each
\* operation is called with one input that changes something when the
\* caller is let through.
NextAdmin ==
    \/ AddToCart({2}, {1}, {1}, {""}) /\ WithinChanges'
    \/ Checkout({2}, {TRUE}, LaterSecond) /\ WithinChanges'
    \/ Services({2}) /\ WithinChanges'
    \/ Subscribe({Anonymous}, {GuestEmail}) /\ WithinChanges'
    \/ Tick /\ WithinChanges'
    \/ AdminPage(Callers, AdminPages)
    \/ AddFood(Callers, {TRUE}, {TRUE}) /\ WithinChanges'
    \/ (\E caller \in Callers : edit_food(caller, 1, 250, TRUE)) /\ WithinChanges'
    \/ (\E caller \in Callers : delete_food(caller, 2)) /\ WithinChanges'
    \/ (\E caller \in Callers, order_id \in OrderIds :
            update_order_status(caller, order_id, "confirmed")) /\ WithinChanges'
    \/ (\E caller \in Callers : edit_user(caller, 2, PrefilledEmail(2), TRUE))
            /\ WithinChanges'
    \/ (\E caller \in Callers : delete_user(caller, 2)) /\ WithinChanges'
    \/ (\E caller \in Callers, request_id \in 1..nextServiceId :
            update_service_status(caller, request_id, "completed")) /\ WithinChanges'
    \/ (\E caller \in Callers : add_coupon(caller, TRUE, "new", 0, TRUE))
            /\ WithinChanges'
    \/ DeleteCoupon(Callers)
    \/ DeleteExpiredCoupons(Callers)
    \/ DeleteSubscriber(Callers, {GuestEmail})
    \/ GetKdsOrders(Callers)

SpecAdmin == Init /\ [][NextAdmin]_vars

\* The kitchen feed: a guest's orders, placed at different times, moved
\* through the statuses by the admin and listed by the feed.
NextKds ==
    \/ AddToCart({2}, {1}, {1}, {""}) /\ Within(MaxKdsOrders, MaxKdsOrders, 1, 0)'
    \/ Checkout({2}, {TRUE}, LaterSecond) /\ Within(MaxKdsOrders, MaxKdsOrders, 1, 0)'
    \/ Tick /\ now' <= MaxKdsOrders - 1
    \/ \E order_id \in OrderIds, new_status \in {"confirmed", "preparing", "delivered"} :
            update_order_status(1, order_id, new_status)
    \/ GetKdsOrders(Callers)

SpecKds == Init /\ [][NextKds]_vars

\* Checkouts whose order number may be one an earlier order holds.
NextNumbers ==
    \/ AddToCart(UserIds, FoodIds, {1}, {""}) /\ Within(MaxDrawn + 1, MaxDrawn, 1, 0)'
    \/ Checkout(UserIds, {TRUE}, 1..MaxDrawn) /\ Within(MaxDrawn + 1, MaxDrawn, 1, 0)'
    \/ RemoveFromCart(UserIds)

SpecNumbers == Init /\ [][NextNumbers]_vars

\* The sales figures: a guest's orders placed on different days, some of
\* them cancelled, and the admin's dashboard and export over date ranges.
NextSales ==
    \/ AddToCart({2}, FoodIds, {1}, {""}) /\ Within(MaxSalesOrders, MaxSalesOrders, 1, 0)'
    \/ Checkout({2}, {TRUE}, LaterSecond) /\ Within(MaxSalesOrders, MaxSalesOrders, 1, 0)'
    \/ Tick /\ Today' \in Dates
    \/ CancelOrder({2})
    \/ AdminDashboard({1}, Dates)
    \/ ExportSales({1}, Dates)

SpecSales == Init /\ [][NextSales]_vars

\* The threaded server again: the add_to_cart requests of one guest, each
\* in two steps, with removals and cart pages served in between.
NextAddConc ==
    \/ AddToCartRead({2, Anonymous}, FoodIds, {1}, {""})
    \/ AddToCartCommit /\ Within(MaxCartRows, 0, MaxQty, 0)'
    \/ RemoveFromCart({2})
    \/ ViewCart({2})

SpecAddConc == Init /\ [][NextAddConc]_vars

\* The threaded server once more: edit_user and delete_user in two steps,
\* called by every user, and the registration of new users.
NextAdminConc ==
    \/ Register({Anonymous}, {TRUE}, {NewEmail}) /\ NextUserId' <= MaxUsers + 1
    \/ AdminUserCheck(UserIds)
    \/ \E r \in Reqs : edit_user_write(r)
    \/ \E r \in Reqs : delete_user_write(r)

SpecAdminConc == Init /\ [][NextAdminConc]_vars

\* Quantities of every sign: int(data.get('quantity', 1)) of add_to_cart
\* and request.json.get('quantity', 1) of update_cart take what the request
\* carries.
SignedQuantities == {0 - 1, 0, 1, 2}

NextQuantity ==
    \/ AddToCart({2}, {1}, SignedQuantities, {""})
            /\ Within(MaxCartRows, MaxOrders, MaxQty, 0)'
            /\ \A c \in carts' : c.quantity >= 0 - MaxQty
    \/ UpdateCart({2}, SignedQuantities)
    \/ RemoveFromCart({2})
    \/ Checkout({2}, {TRUE}, LaterSecond)
            /\ Within(MaxCartRows, MaxOrders, MaxQty, 0)'

SpecQuantity == Init /\ [][NextQuantity]_vars

\* Foods added and deleted by the admin while a guest holds cart rows and
\* orders of them.
NextFoods ==
    \/ AddToCart({2}, FoodIds, {1}, {""}) /\ Within(MaxFoodRows, MaxFoodRows, 1, 0)'
    \/ RemoveFromCart({2})
    \/ Checkout({2}, {TRUE}, LaterSecond) /\ Within(MaxFoodRows, MaxFoodRows, 1, 0)'
    \/ DeleteFood(UserIds)
    \/ AddFood({1}, {TRUE}, {TRUE}) /\ NextFoodId' <= Cardinality(FoodIds) + 1
    \/ DeleteUser({1})

SpecFoods == Init /\ [][NextFoods]_vars

\* The carts of two users side by side: every cart request and checkouts
\* that go through, by either user, on rows of either user.
NextIsolation ==
    \/ AddToCart(UserIds, FoodIds, {1}, {""})
            /\ Within(MaxCartRows, MaxOrders, MaxQty, 0)'
    \/ UpdateCart(UserIds, {0, 2})
    \/ RemoveFromCart(UserIds)
    \/ Checkout(UserIds, {TRUE}, LaterSecond)
            /\ Within(MaxCartRows, MaxOrders, MaxQty, 0)'

SpecIsolation == Init /\ [][NextIsolation]_vars

\* Refused add_to_cart requests: callers who are not logged in, foods the
\* admin has made unavailable, and a food id that is not on the menu.
NextRefused ==
    \/ AddToCart(Callers, FoodIds \cup {NextFoodId}, {1}, {""})
            /\ Within(MaxCartRows, 0, MaxQty, 0)'
    \/ RemoveFromCart({2})
    \/ EditFood({1}, FoodIds, BOOLEAN)

SpecRefused == Init /\ [][NextRefused]_vars

\* ----------------------------------------------------------------- claims
\* The place of a status on the line pending -> confirmed -> preparing ->
\* delivered (0 for a status that is not on it).
Stage(status) ==
    CASE status = "pending" -> 1
      [] status = "confirmed" -> 2
      [] status = "preparing" -> 3
      [] status = "delivered" -> 4
      [] OTHER -> 0

\* C1: whatever cancel_order and update_order_status calls are served, an
\* order's status either stays, or moves forward along pending -> confirmed
\* -> preparing -> delivered, or becomes cancelled from pending or confirmed.
C1_StatusOnlyForward ==
    [][\A o \in DOMAIN orders :
          o \in DOMAIN orders' =>
            LET old == orders[o].status
                new == orders'[o].status
            IN  \/ new = old
                \/ Stage(old) > 0 /\ Stage(new) > Stage(old)
                \/ new = "cancelled" /\ old \in {"pending", "confirmed"}]_vars

\* C2: cancel_order by the owner of an order that is preparing, delivered
\* or cancelled changes nothing in the database; by the owner of a pending
\* or confirmed order it sets the status to cancelled and nothing else.
C2_CancelByOwner ==
    [][(/\ last'.op = "cancel_order"
        /\ last'.target \in DOMAIN orders
        /\ orders[last'.target].user_id = last'.user)
       => IF orders[last'.target].status \in {"preparing", "delivered", "cancelled"}
          THEN UNCHANGED db
          ELSE /\ orders'[last'.target].status = "cancelled"
               /\ orders' = [orders EXCEPT ![last'.target].status = "cancelled"]
               /\ UNCHANGED <<users, foods, carts, nextCartId, nextOrderId>>]_vars

\* C2 witness: the owner's cancel_order was served on an order that is
\* being prepared, and was refused.
C2_Witness ==
    /\ last.op = "cancel_order"
    /\ last.target \in DOMAIN orders
    /\ orders[last.target].user_id = last.user
    /\ orders[last.target].status = "preparing"
    /\ last.flash = "Order cannot be cancelled at this stage"

\* C6: a request served for a user who is an admin leaves that user an
\* admin; in particular edit_user on the caller's own record with is_admin
\* unchecked.
C6_NoSelfDemotion ==
    [][\A u \in DOMAIN users :
          (last'.user = u /\ users[u].is_admin /\ u \in DOMAIN users')
            => users'[u].is_admin]_vars

\* C6 witness: an admin's edit_user on their own record with is_admin
\* unchecked was served, and the admin is still an admin.
C6_Witness ==
    /\ last.op = "edit_user"
    /\ last.code = 302
    /\ last.target = last.user
    /\ last.is_admin = FALSE
    /\ users[last.user].is_admin

\* An order page request by a logged-in user for an existing order that is
\* not the caller's own.
ForeignOrderRequest ==
    /\ last.op \in {"order_details", "order_success"}
    /\ last.user \in DOMAIN users
    /\ last.target \in DOMAIN orders
    /\ orders[last.target].user_id # last.user

\* C7 as stated: every logged-in user who asks for an order page of an
\* order that is not their own gets 403.
C7_ForeignOrderForbidden == ForeignOrderRequest => last.code = 403

\* C7 amended: a logged-in user who is not an admin and asks for an order
\* page of an order that is not their own gets 403; the order is shown
\* (200) only to its owner or to an admin.
C7_ForeignOrderForbiddenUnlessAdmin ==
    /\ (ForeignOrderRequest /\ ~users[last.user].is_admin) => last.code = 403
    /\ (last.op \in {"order_details", "order_success"} /\ last.code = 200)
         => (orders[last.target].user_id = last.user \/ users[last.user].is_admin)

\* C7 witness: a non-admin asked for another user's order and got 403.
C7_Witness ==
    /\ ForeignOrderRequest
    /\ ~users[last.user].is_admin
    /\ last.code = 403

\* The successful checkout just served: it answered with the redirect to
\* order_success of the order it created.
CheckoutSucceeded == last.op = "checkout" /\ last.flash = "Order placed successfully!"

\* The ways of pairing the items 1..n of an order one-to-one with `rows`.
Pairings(n, rows) ==
    {f \in [1..n -> rows] : \A i, j \in 1..n : f[i] = f[j] => i = j}

\* C3: a successful checkout leaves the user no cart row and adds exactly
\* one order, owned by the user and pending, whose items pair one-to-one
\* with the cart rows the user had, with the same food_id, quantity and
\* special_instructions; the orders that existed stay as they were.
C3_CheckoutMovesCart ==
    [][CheckoutSucceeded' =>
         LET u == last'.user
             o == last'.target
             rows == {c \in carts : c.user_id = u}
         IN  /\ rows # {}
             /\ {c \in carts' : c.user_id = u} = {}
             /\ o \notin DOMAIN orders
             /\ DOMAIN orders' = DOMAIN orders \cup {o}
             /\ \A p \in DOMAIN orders : orders'[p] = orders[p]
             /\ orders'[o].user_id = u
             /\ orders'[o].status = "pending"
             /\ Len(orders'[o].items) = Cardinality(rows)
             /\ \E f \in Pairings(Len(orders'[o].items), rows) :
                  \A i \in 1..Len(orders'[o].items) :
                      /\ orders'[o].items[i].food_id = f[i].food_id
                      /\ orders'[o].items[i].quantity = f[i].quantity
                      /\ orders'[o].items[i].special_instructions
                            = f[i].special_instructions]_vars

\* C3 witness: a checkout of a cart of two rows succeeded, one of the rows
\* with a quantity of 2 and instructions.
C3_Witness ==
    /\ CheckoutSucceeded
    /\ Len(orders[last.target].items) = 2
    /\ \E i \in 1..2 : /\ orders[last.target].items[i].quantity = 2
                       /\ orders[last.target].items[i].special_instructions = "a"

\* C5: no request changes the total_amount of an existing order or the
\* price of any of its items.
C5_OrderPricesFixed ==
    [][\A o \in DOMAIN orders :
          o \in DOMAIN orders' =>
            /\ orders'[o].total_amount = orders[o].total_amount
            /\ Len(orders'[o].items) = Len(orders[o].items)
            /\ \A i \in 1..Len(orders[o].items) :
                  orders'[o].items[i].price = orders[o].items[i].price]_vars

\* C5 witness: edit_food was served and an order holds an item whose price
\* is no longer the price of its food.
C5_Witness ==
    /\ last.op = "edit_food"
    /\ last.code = 302
    /\ \E o \in DOMAIN orders : \E i \in 1..Len(orders[o].items) :
          /\ orders[o].items[i].food_id = last.target
          /\ orders[o].items[i].price # foods[last.target].price

RECURSIVE SumById(_, _)
\* The sum, over the cart rows of user u with an id of at most k, of the
\* current price of the row's food times the row's quantity.
SumById(u, k) ==
    IF k = 0 THEN 0
    ELSE (IF \E c \in carts : c.id = k /\ c.user_id = u
          THEN LET c == CHOOSE c \in carts : c.id = k /\ c.user_id = u
               IN  foods[c.food_id].price * c.quantity
          ELSE 0)
         + SumById(u, k - 1)

\* C8: the subtotal reported by the cart page, update_cart, the checkout
\* page and the context processor is the sum over the caller's cart rows of
\* the food's current price times the quantity; it is 0 for an empty cart
\* and for a caller who is not logged in.
C8_CartTotalIsSum ==
    (last.op \in {"cart", "update_cart", "checkout", "menu"}
        /\ "subtotal" \in DOMAIN last)
    => /\ last.user \in DOMAIN users => last.subtotal = SumById(last.user, nextCartId - 1)
       /\ last.user \notin DOMAIN users => last.subtotal = 0
       /\ (~\E c \in carts : c.user_id = last.user) => last.subtotal = 0

\* C8 witness: update_cart reported a subtotal for a user with two rows of
\* different foods, one of them with a quantity of 2.
C8_Witness ==
    /\ last.op = "update_cart"
    /\ last.code = 200
    /\ last.quantity = 2
    /\ Cardinality({c \in carts : c.user_id = last.user}) = 2
    /\ last.subtotal > 0

\* The row of the food in the caller's cart before an add_to_cart.
RowOf(u, f) == CHOOSE c \in carts : c.user_id = u /\ c.food_id = f

\* C10: add_to_cart for a food the caller already has in the cart adds no
\* row; the row's quantity grows by the requested quantity; its
\* instructions become old, "; ", new when new ones are given (the new ones
\* alone when there were none) and stay as they were otherwise; the other
\* rows stay as they were.
C10_AddMergesIntoRow ==
    [][(/\ last'.op = "add_to_cart"
        /\ last'.code = 200
        /\ \E c \in carts : c.user_id = last'.user /\ c.food_id = last'.target)
       => LET old == RowOf(last'.user, last'.target)
              given == last'.instructions
          IN  /\ {c.id : c \in carts'} = {c.id : c \in carts}
              /\ Cardinality(carts') = Cardinality(carts)
              /\ \A c \in carts : c.id # old.id => c \in carts'
              /\ \E new \in carts' :
                    /\ new.id = old.id
                    /\ new.user_id = old.user_id
                    /\ new.food_id = old.food_id
                    /\ new.quantity = old.quantity + last'.quantity
                    /\ new.special_instructions =
                         IF given = "" THEN old.special_instructions
                         ELSE IF old.special_instructions = "" THEN given
                         ELSE old.special_instructions \o "; " \o given]_vars

\* C10 witness: add_to_cart with quantity 1 and instructions "b" was served
\* for a food already in the cart with quantity 1 and instructions "a".
C10_Witness ==
    /\ last.op = "add_to_cart"
    /\ last.code = 200
    /\ last.quantity = 1
    /\ last.instructions = "b"
    /\ \E c \in carts : /\ c.user_id = last.user
                        /\ c.food_id = last.target
                        /\ c.quantity = 2
                        /\ c.special_instructions = "a; b"

\* C4: cart deletion and order creation take effect as one step, also when
\* other requests of the same user interleave with a checkout: no order
\* exists whose source cart rows are still present, a checkout that deletes
\* cart rows persists the order made of them, and no cart row is the source
\* of two orders.
C4_CheckoutAtomic ==
    [][/\ \A o \in DOMAIN orders' : \A c \in carts' : c.id \notin source'[o]
       /\ (last'.op = "checkout" /\ carts' # carts)
            => /\ DOMAIN orders' = DOMAIN orders \cup {last'.target}
               /\ last'.target \notin DOMAIN orders
               /\ {c.id : c \in carts \ carts'} \subseteq source'[last'.target]
       /\ \A o1, o2 \in DOMAIN orders' :
            o1 # o2 => source'[o1] \cap source'[o2] = {}]_vars

RECURSIVE ItemsSum(_)
\* The sum of price times quantity over the items of an order.
ItemsSum(items) ==
    IF items = <<>> THEN 0
    ELSE items[1].price * items[1].quantity + ItemsSum(Tail(items))

\* C9: every persisted order has total_amount = S + D, S the sum of price
\* times quantity over its items and D the delivery surcharge, 50 when
\* S < 200 and 0 otherwise, also when other requests are served between the
\* checkout's cart read and its total.
C9_TotalIsItemsPlusDelivery ==
    \A o \in DOMAIN orders :
        LET S == ItemsSum(orders[o].items)
            D == IF S < 200 THEN 50 ELSE 0
        IN  orders[o].total_amount = S + D

\* C11: the homepage's coupon is never an inactive one nor one whose
\* valid_to is before the time of the request; it is a most recently created
\* one among the active, unexpired coupons, and none only when there is none.
C11_ActiveCouponLookup ==
    (last.op = "index" /\ last.code = 200)
    => LET eligible == {c \in coupons : c.active /\ ~(c.valid_to < last.at)}
       IN  IF eligible = {} THEN last.active_coupon = 0
           ELSE \E c \in eligible :
                   /\ c.id = last.active_coupon
                   /\ \A d \in eligible : d.created_at <= c.created_at

\* C11 witness: the homepage showed a coupon while an expired coupon and a
\* newer inactive coupon were stored.
C11_Witness ==
    /\ last.op = "index"
    /\ last.code = 200
    /\ last.active_coupon # 0
    /\ \E c \in coupons : c.valid_to < last.at
    /\ \E c, d \in coupons :
          c.id = last.active_coupon /\ ~d.active /\ d.created_at > c.created_at

\* C13: add_coupon with a code whose upper-cased form is the code of a
\* stored coupon is answered with a message (not with a server error) and
\* leaves the coupons as they were.
C13_DuplicateCouponSurfaced ==
    [][(/\ last'.op = "add_coupon"
        /\ "coupon_code" \in DOMAIN last'
        /\ last'.valid
        /\ \E c \in coupons : c.code = Upper(last'.coupon_code))
       => /\ last'.code # 500
          /\ last'.flash # ""
          /\ coupons' = coupons]_vars

\* C12: no two users have the same email, and a register or edit_user
\* naming an email another user holds is answered with a message and changes
\* no user.
C12_EmailsUnique ==
    [][/\ \A u, v \in DOMAIN users' : users'[u].email = users'[v].email => u = v
       /\ (/\ last'.op = "register"
           /\ "email" \in DOMAIN last'
           /\ last'.valid
           /\ \E u \in DOMAIN users : users[u].email = last'.email)
          => /\ last'.flash = "Email already registered!"
             /\ users' = users
       /\ (/\ last'.op = "edit_user"
           /\ "email" \in DOMAIN last'
           /\ \E u \in DOMAIN users : u # last'.target /\ users[u].email = last'.email)
          => /\ last'.flash = "Email already registered by another user!"
             /\ users' = users]_vars

\* C12 witness: the admin's edit_user naming the email of another user was
\* refused, after a third user had registered.
C12_Witness ==
    /\ last.op = "edit_user"
    /\ last.flash = "Email already registered by another user!"
    /\ Cardinality(DOMAIN users) = 3
    /\ \E u \in DOMAIN users : u # last.target /\ users[u].email = last.email

\* C14: update_cart or remove_from_cart by a logged-in user on a cart row of
\* another user is answered 403 and changes no cart row.
C14_ForeignCartRowForbidden ==
    [][(/\ last'.op \in {"update_cart", "remove_from_cart"}
        /\ is_authenticated(last'.user)
        /\ \E c \in carts : c.id = last'.target /\ c.user_id # last'.user)
       => /\ last'.code = 403
          /\ carts' = carts]_vars

\* C14 witness: a request on the row of another user was refused while the
\* caller has a row too.
C14_Witness ==
    /\ last.op \in {"update_cart", "remove_from_cart"}
    /\ last.code = 403
    /\ \E c, d \in carts :
          /\ c.id = last.target
          /\ c.user_id # last.user
          /\ d.user_id = last.user

AdminOps ==
    AdminPages \cup
    {"add_food", "edit_food", "delete_food", "update_order_status", "edit_user",
     "delete_user", "update_service_status", "get_kds_orders", "add_coupon",
     "delete_coupon", "delete_expired_coupons", "delete_subscriber"}

\* C15: an admin operation called by anyone who is not logged in as an admin
\* changes no stored state, and a logged-in caller who is not an admin is
\* answered 403.  (A step that changes the clock is the passing of time, not
\* a request.)
C15_AdminOnly ==
    [][(/\ now' = now
        /\ last'.op \in AdminOps
        /\ ~(is_authenticated(last'.user) /\ users[last'.user].is_admin))
       => /\ UNCHANGED db
          /\ is_authenticated(last'.user) => last'.code = 403]_vars

\* C15 witness: the guest was refused update_order_status on an order that
\* exists.
C15_Witness ==
    /\ last.op = "update_order_status"
    /\ last.user = 2
    /\ last.code = 403
    /\ last.target \in DOMAIN orders

\* C16: get_kds_orders changes nothing and lists exactly the orders whose
\* status is confirmed or preparing, each once, no later order before an
\* earlier one.  (A step that changes the clock is the passing of time, not
\* a request.)
C16_KdsListsActiveOrders ==
    [][(now' = now /\ last'.op = "get_kds_orders" /\ last'.code = 200)
       => /\ UNCHANGED db
          /\ {last'.orders[i] : i \in DOMAIN last'.orders}
                = {o \in DOMAIN orders : orders[o].status \in {"confirmed", "preparing"}}
          /\ \A i, j \in DOMAIN last'.orders :
                /\ i # j => last'.orders[i] # last'.orders[j]
                /\ i < j => orders[last'.orders[i]].created_at
                               <= orders[last'.orders[j]].created_at]_vars

\* C16 witness: the feed listed the later of two orders placed at different
\* times and left out the earlier one, which is delivered.
C16_Witness ==
    /\ last.op = "get_kds_orders"
    /\ last.code = 200
    /\ \E o, p \in DOMAIN orders :
          /\ orders[o].created_at < orders[p].created_at
          /\ orders[o].status = "delivered"
          /\ orders[p].status = "preparing"
          /\ last.orders = <<p>>

\* C17: the status of every order is one of pending, confirmed, preparing,
\* delivered and cancelled; an order starts as pending; update_order_status
\* with any other value, or with none, is answered 400 with success false
\* and leaves the orders as they were.
C17_StatusWhitelist ==
    [][/\ \A o \in DOMAIN orders' :
             /\ orders'[o].status \in Statuses
             /\ o \notin DOMAIN orders => orders'[o].status = "pending"
       /\ (/\ last'.op = "update_order_status"
           /\ "new_status" \in DOMAIN last'
           /\ last'.new_status \notin Statuses)
          => /\ last'.code = 400
             /\ ~last'.success
             /\ orders' = orders]_vars

\* C17 witness: the admin's update_order_status with a value outside the
\* five was answered 400 on an order that had been confirmed.
C17_Witness ==
    /\ last.op = "update_order_status"
    /\ last.code = 400
    /\ last.new_status = "refunded"
    /\ last.target \in DOMAIN orders
    /\ orders[last.target].status = "confirmed"

\* C20: cancel_order by a logged-in user who does not own the order, an
\* admin included, is answered 403 and leaves the status of every order as
\* it was.
C20_CancelOnlyByOwner ==
    [][(/\ last'.op = "cancel_order"
        /\ is_authenticated(last'.user)
        /\ last'.target \in DOMAIN orders
        /\ orders[last'.target].user_id # last'.user)
       => /\ last'.code = 403
          /\ orders' = orders]_vars

\* C20 witness: an admin was refused the cancellation of a pending order of
\* another user.
C20_Witness ==
    /\ last.op = "cancel_order"
    /\ last.code = 403
    /\ users[last.user].is_admin
    /\ last.target \in DOMAIN orders
    /\ orders[last.target].user_id # last.user
    /\ orders[last.target].status = "pending"

\* The orders of everyone but user d.
OrdersOfOthers(all, d) ==
    [o \in {p \in DOMAIN all : all[p].user_id # d} |-> all[o]]

\* C18: after delete_user has deleted a user other than the acting admin, no
\* order (with its items), cart row or service request of that user remains,
\* and the users, orders, cart rows and service requests of everyone else
\* are as before.
C18_DeleteUserCascades ==
    [][(/\ last'.op = "delete_user"
        /\ last'.flash = "User and all associated data deleted successfully!")
       => LET d == last'.target
          IN  /\ d # last'.user
              /\ d \in DOMAIN users
              /\ users' = [u \in DOMAIN users \ {d} |-> users[u]]
              /\ orders' = OrdersOfOthers(orders, d)
              /\ carts' = {c \in carts : c.user_id # d}
              /\ services' = {r \in services : r.user_id # d}
              /\ ~\E o \in DOMAIN orders' : orders'[o].user_id = d
              /\ ~\E c \in carts' : c.user_id = d
              /\ ~\E r \in services' : r.user_id = d]_vars

\* C18 witness: a user was deleted while another user has an order, a cart
\* row and a service request.
C18_Witness ==
    /\ last.op = "delete_user"
    /\ last.flash = "User and all associated data deleted successfully!"
    /\ \E u \in DOMAIN users :
          /\ u # last.user
          /\ \E o \in DOMAIN orders : orders[o].user_id = u
          /\ \E c \in carts : c.user_id = u
          /\ \E r \in services : r.user_id = u

\* C19: the order numbers of the orders are pairwise distinct, and a checkout
\* whose order number an earlier order holds persists no order (and so no
\* order item) and leaves the cart rows in place.
C19_OrderNumbersDistinct ==
    [][/\ \A o, p \in DOMAIN orders' :
             orders'[o].order_number = orders'[p].order_number => o = p
       /\ (/\ last'.op = "checkout"
           /\ "order_number" \in DOMAIN last'
           /\ \E o \in DOMAIN orders : orders[o].order_number = last'.order_number)
          => /\ orders' = orders
             /\ carts' = carts]_vars

\* C19 witness: a checkout that drew the order number of the one order failed
\* and the caller's cart rows are still there.
C19_Witness ==
    /\ last.op = "checkout"
    /\ last.code = 500
    /\ \E o \in DOMAIN orders : orders[o].order_number = last.order_number
    /\ CartOf(last.user) # {}

\* The day an instant falls on.
Day(t) == t \div TicksPerDay

\* The orders that count towards the sales of the days first..final: created
\* on one of those days and not cancelled.
Counted(first, final) ==
    {o \in DOMAIN orders :
        /\ orders[o].status # "cancelled"
        /\ Day(orders[o].created_at) \in first..final}

RECURSIVE SeqSum(_)
SeqSum(seq) == IF seq = <<>> THEN 0 ELSE Head(seq) + SeqSum(Tail(seq))

\* The quantity, or the price times quantity, the orders `found` hold of food f.
RECURSIVE SoldOf(_, _, _)
SoldOf(found, f, priced) ==
    IF found = {} THEN 0
    ELSE LET o == CHOOSE p \in found : TRUE
             its == [i \in DOMAIN orders[o].items |->
                        IF orders[o].items[i].food_id # f THEN 0
                        ELSE IF priced
                        THEN orders[o].items[i].price * orders[o].items[i].quantity
                        ELSE orders[o].items[i].quantity]
         IN  SeqSum(its) + SoldOf(found \ {o}, f, priced)

QuantityOf(rows, u, f) ==
    SumOf({c \in rows : c.user_id = u /\ c.food_id = f},
          [c \in rows |-> c.quantity])

\* C22: there is at most one cart row per (user, food) pair, and every
\* add_to_cart that is answered "added to cart!" raises the quantity its user
\* holds of the food by the quantity requested, also when the lookups and
\* commits of several add_to_cart requests interleave.
C22_OneRowPerPair ==
    [][/\ \A c, d \in carts' :
             (c.user_id = d.user_id /\ c.food_id = d.food_id) => c = d
       /\ \A r \in Reqs :
             (/\ req[r] # NoReq
              /\ req'[r] = NoReq
              /\ last'.code = 200)
             => QuantityOf(carts', req[r].user, req[r].food_id)
                   = QuantityOf(carts, req[r].user, req[r].food_id)
                     + req[r].quantity]_vars

\* C23: in every state some user has is_admin true, also when the requests
\* of two admins who edit or delete each other interleave.
C23_SomeAdmin == \E u \in DOMAIN users : users[u].is_admin

\* C24: every cart row and every order item has a quantity of at least 1,
\* whatever quantity add_to_cart and update_cart are passed.
C24_QuantityAtLeastOne ==
    /\ \A c \in carts : c.quantity >= 1
    /\ \A o \in DOMAIN orders :
          \A i \in DOMAIN orders[o].items : orders[o].items[i].quantity >= 1

\* C25: every cart row and every order item refers to a food that exists,
\* whatever foods have been deleted.
C25_FoodsReferencedExist ==
    /\ \A c \in carts : c.food_id \in DOMAIN foods
    /\ \A o \in DOMAIN orders :
          \A i \in DOMAIN orders[o].items :
              orders[o].items[i].food_id \in DOMAIN foods

\* C25 witness: delete_food of a food that an order item refers to has
\* failed, after the other food was deleted.
C25_Witness ==
    /\ last.op = "delete_food"
    /\ last.code = 500
    /\ \E o \in DOMAIN orders :
          \E i \in DOMAIN orders[o].items : orders[o].items[i].food_id = last.target
    /\ \E f \in FoodIds : f \notin DOMAIN foods

\* C26: checkout by a logged-in user whose cart is empty changes no stored
\* state, and every order has at least one item.
C26_EmptyCartNoOrder ==
    [][/\ (/\ last'.op = "checkout"
           /\ is_authenticated(last'.user)
           /\ CartOf(last'.user) = {})
          => /\ UNCHANGED db
             /\ last'.flash = "Your cart is empty!"
       /\ \A o \in DOMAIN orders' : Len(orders'[o].items) >= 1]_vars

\* C26 witness: a user who has placed an order, and so has an empty cart,
\* was told so on the next checkout.
C26_Witness ==
    /\ last.op = "checkout"
    /\ last.flash = "Your cart is empty!"
    /\ \E o \in DOMAIN orders : orders[o].user_id = last.user
    /\ CartOf(last.user) = {}

\* C27: add_to_cart, update_cart, remove_from_cart and checkout served for
\* one user leave the cart rows and the orders (with their items) of every
\* other user as they were, and add no row and no order owned by another
\* user.
C27_CartsIsolated ==
    [][last'.op \in {"add_to_cart", "update_cart", "remove_from_cart", "checkout"}
       => \A u \in DOMAIN users :
             u # last'.user
               => /\ {c \in carts' : c.user_id = u} = {c \in carts : c.user_id = u}
                  /\ {o \in DOMAIN orders' : orders'[o].user_id = u}
                       = {o \in DOMAIN orders : orders[o].user_id = u}
                  /\ \A o \in DOMAIN orders :
                        orders[o].user_id = u => orders'[o] = orders[o]]_vars

\* C27 witness: a checkout of one user went through and emptied that user's
\* cart while another user still has a cart row.
C27_Witness ==
    /\ last.op = "checkout"
    /\ last.code = 302
    /\ CartOf(last.user) = {}
    /\ \E o \in DOMAIN orders : orders[o].user_id = last.user
    /\ \E u \in DOMAIN users : u # last.user /\ CartOf(u) # {}

\* C28: add_to_cart by a caller who is not logged in (answered 401 or with a
\* redirect), for a food that does not exist (404) or for a food that is not
\* available (400) changes no cart row and nothing else that is stored.
C28_RefusedAddChangesNothing ==
    [][last'.op = "add_to_cart"
       => IF ~is_authenticated(last'.user)
          THEN last'.code \in {401, 302} /\ UNCHANGED db
          ELSE IF last'.target \notin DOMAIN foods
          THEN last'.code = 404 /\ UNCHANGED db
          ELSE IF ~foods[last'.target].is_available
          THEN last'.code = 400 /\ UNCHANGED db
          ELSE last'.code = 200 /\ carts' # carts]_vars

\* C28 witness: add_to_cart was refused for a food that is no longer
\* available while the caller holds a cart row for it.
C28_Witness ==
    /\ last.op = "add_to_cart"
    /\ last.code = 400
    /\ \E c \in carts : c.user_id = last.user /\ c.food_id = last.target

\* C29: update_cart by the owner of a cart row with a quantity below 1
\* deletes the row, and with a quantity of 1 or more sets the row's
\* quantity to that value; no other row changes, and the subtotal, delivery
\* charge, total and cart count returned are those of the caller's cart
\* after the change.
C29_UpdateReplacesQuantity ==
    [][(last'.op = "update_cart" /\ last'.code = 200)
       => \E row \in carts :
            /\ row.id = last'.target
            /\ row.user_id = last'.user
            /\ carts' = IF last'.quantity < 1
                        THEN carts \ {row}
                        ELSE (carts \ {row}) \cup
                             {[row EXCEPT !.quantity = last'.quantity]}
            /\ last'.subtotal = SumById(row.user_id, nextCartId - 1)'
            /\ last'.delivery_charge =
                   IF last'.subtotal < DeliveryThreshold THEN DeliveryCharge ELSE 0
            /\ last'.total = last'.subtotal + last'.delivery_charge
            /\ last'.cart_count = Cardinality({c \in carts' : c.user_id = last'.user})]_vars

\* C29 witness: update_cart with quantity 0 removed one of the caller's two
\* rows, and the answer counts the row that is left and charges delivery
\* for it.
C29_Witness ==
    /\ last.op = "update_cart"
    /\ last.code = 200
    /\ last.quantity = 0
    /\ ~\E c \in carts : c.id = last.target
    /\ last.cart_count = 1
    /\ last.subtotal > 0
    /\ last.delivery_charge = DeliveryCharge

====
